---- MODULE Spec2Model ----
(***************************************************************************)
(* A model of the run orchestration core of vrzaq: the QuantumRunner       *)
(* session (limiter, per-path lock table, retry, timeout, shutdown), the   *)
(* per-file pipeline of processFiles (stat, read, validate, cache check,   *)
(* format, write, verify, cache update, recovery) and the cache store      *)
(* (loadCache, saveCache).  Every await of the source that touches shared  *)
(* state (the disk, the cache, the lock flag) is a step of its own, so the *)
(* interleavings of the event loop are the interleavings of the model.     *)
(***************************************************************************)
EXTENDS Integers, Sequences, FiniteSets, TLC

\* ------------------------------------------------------------------ bounds
\* Number of files the scanner finds under the root.
NumFiles == 2
\* Number of paths the watch passes of a session submit.
MaxChanges == 2
\* Backups made before the backup commands are used.
MaxArchives == 2

\* ------------------------------------------------------- program constants
\* options.retry when the caller gives none.
Retry == 1
\* The largest retry count of the sessions that draw it.
MaxRetry == 2
\* config.maxFileSize, in MB.
maxFileSize == 5

\* -------------------------------------------------------------- the domain
AllPaths == <<"a.js", "b.json", "c.mjs", "d.ts">>
FileList == [i \in 1..NumFiles |-> AllPaths[i]]
Files == {FileList[i] : i \in 1..NumFiles}

\* "undefined" of the source: an absent property, an unset local.
Undefined == "undefined"

\* File contents, by what the pipeline can tell apart:
\*   empty  the empty string (size 0)
\*   raw    valid and not in formatted form
\*   fmt    valid and in formatted form
\*   bad    does not parse
\*   big    larger than maxFileSize
\*   trap   parses, but the formatter throws on it
Contents == {"empty", "raw", "fmt", "bad", "big", "trap"}

Size(c) ==
    CASE c = "empty" -> 0
      [] c = "big" -> maxFileSize + 1
      [] c = "fmt" -> 3
      [] OTHER -> 2

\* path.extname(filePath).slice(1)
extname(f) ==
    CASE f = "a.js" -> "js"
      [] f = "b.json" -> "json"
      [] f = "c.mjs" -> "mjs"
      [] OTHER -> "ts"

\* JSON.parse / acorn.parse: TRUE when the content parses.
Parses(c) == c \notin {"bad"}

\* crypto digest: deterministic and injective on the contents of the model.
safeHash(c) == "sha256:" \o c

\* prettier.format(originalContent, options): the formatted text, or a throw.
FormatThrows(c) == c = "trap"
Format(c) == IF c = "raw" THEN "fmt" ELSE c

\* What a corrupted or intercepted write can leave on disk instead of c.
Corruptions(c) == {"raw", "bad"} \ {c}

\* ------------------------------------------------------------ configuration
\* The fields of the final configuration that the model distinguishes.
\* onLoad stands for a function-valued (executable) field.
BaseConfig == [cacheVersion |-> "1.1.0", prettier |-> "p1", onLoad |-> "fnA"]
UserConfigs ==
    { BaseConfig,
      [BaseConfig EXCEPT !.prettier = "p2"],
      [BaseConfig EXCEPT !.cacheVersion = "1.2.0"],
      [BaseConfig EXCEPT !.onLoad = "fnB"] }

\* JSON.stringify(configObject, replacer): function-valued fields are dropped.
StableConfigString(c) == c.cacheVersion \o "|" \o c.prettier
getConfigHash(c) == "sha256:" \o StableConfigString(c)

\* loadConfig: the final configuration with its configHash added.
loadConfig(user) ==
    [cacheVersion |-> user.cacheVersion, prettier |-> user.prettier,
     onLoad |-> user.onLoad, configHash |-> getConfigHash(user)]

\* ------------------------------------------------------------------- state
VARIABLES
    disk,         \* project files: path -> [content, mtime]
    clock,        \* the filesystem clock that stamps modification times
    cacheFile,    \* the cache file on disk: [kind, data]
    tempFile,     \* the temporary file of the save in flight: [kind, data]
    recovery,     \* the recovery directory: a set of <<file, content>>
    env,          \* the environment: [intercept: the path whose writes are corrupted,
                  \* recoveryOk: the recovery directory can be written,
                  \* slow: the tasks whose attempts may outlast the timeout,
                  \* listeners: the extensions' listeners, in registration order]
    config,       \* state.config
    options,      \* QuantumRunner.options
    cache,        \* state.cache: [version, configHash, files]
    cacheLock,    \* state.cacheLock
    shuttingDown, \* QuantumRunner.state.shuttingDown
    polling,      \* a gracefulShutdown call is in its polling loop
    phase,        \* where run() is
    session,      \* "first" or "second" invocation of the tool
    task,         \* the limiter's tasks: one per submitted path
    queue,        \* the limiter's pending tasks, in submission order
    fileLocks,    \* QuantumRunner.state.fileLocks: path -> owning task (0: none)
    exec,         \* the processFiles calls: <<task, attempt>> -> locals
    watcher,      \* QuantumRunner.state.watcher is active
    changeBuffer, \* QuantumRunner.state.changeBuffer
    debounceTimer, \* the debounce timer is pending
    summary,      \* the summary emitted with run:complete
    emitted,      \* session-level events emitted so far: name -> count
    firstRun,     \* what the first session did to each file
    bk,           \* the backup directory and the backup-manager call in progress
    sc,           \* the ignore rules, the scanner's position and what it has yielded
    resolved      \* the gracefulShutdown calls that have resolved: [drained, stopped] at that moment

vars == <<disk, clock, cacheFile, tempFile, recovery, env, config, options, cache,
          cacheLock, shuttingDown, polling, phase, session, task, queue,
          fileLocks, exec, watcher, changeBuffer, debounceTimer, summary, emitted, firstRun, bk, sc, resolved>>

TaskIds == 1..(NumFiles + MaxChanges)
\* The processFiles calls a session can make, one per attempt of a task: up to
\* Retry + 1 attempts where the retry count is the default, up to MaxRetry + 1
\* for the one task of the sessions that draw the retry count.
Attempts == 1..(MaxRetry + 1)
ExecIds == {e \in TaskIds \X Attempts : e[1] = 1 \/ e[2] <= Retry + 1}

NoFiles == [f \in {} |-> [hash |-> Undefined, mtime |-> 0]]
\* state.cache: filesIs is what the value under the key `files` is: an object
\* (the entries map, held in files), a number, or nothing at all.
FreshCache(cfg) == [version |-> cfg.cacheVersion, configHash |-> cfg.configHash, files |-> NoFiles, filesIs |-> "object"]
UnsetCache == [version |-> Undefined, configHash |-> Undefined, files |-> NoFiles, filesIs |-> "object"]
NoFile == [kind |-> "missing", data |-> UnsetCache]

ZeroStats == [formatted |-> 0, skipped |-> 0, unchanged |-> 0, invalid |-> 0, total |-> 0]
NoResult == [stats |-> ZeroStats, errors |-> <<>>]
NoStat == [size |-> -1, mtime |-> -1]
\* The object emitted with format:before: { file, originalContent }.  content is a
\* property the object does not have (Undefined) unless a listener adds it.
Payload(f, c) == [file |-> f, originalContent |-> c, content |-> Undefined]
\* payload is the object after the listeners of format:before ran, seen the
\* text each of them found in it.
NoExec == [pc |-> "none", file |-> Undefined, fileStat |-> NoStat, originalContent |-> Undefined,
           hash |-> Undefined, cacheEntry |-> <<>>, formatted |-> Undefined,
           payload |-> Payload(Undefined, Undefined), seen |-> <<>>,
           stats |-> ZeroStats, errors |-> <<>>, events |-> <<>>, log |-> <<>>]
\* during and rank are history fields: the calls for the same path that had begun
\* their attempts and had not settled when this call was made, and the position
\* of this call among the calls of the session in the order they settled.
NoTask == [file |-> Undefined, st |-> "none", attempt |-> 0, owner |-> 0, during |-> {},
           rank |-> 0, error |-> Undefined, result |-> NoResult, delays |-> <<>>]
\* The backup directory: the archives with their manifests, in creation order
\* (the position of an archive stands for its name, its manifest's createdAt and
\* its modification time), and the audit log.  Of an archive: present, the
\* archive file exists; mf, its manifest file is "ok", "missing" or "unreadable"; st is the createBackup call of the run, restore the
\* restoreBackup call.  tree and count are history fields of the restore call: the
\* project files and the number of archives when it was made.
NoRestore == [pc |-> "none", name |-> 0, error |-> Undefined, tree |-> <<>>, count |-> 0]
\* The report of verifyBackups; dir is a history field, the backup directory as
\* the command found it.
NoReport == [made |-> "no", healthy |-> {}, corrupt |-> {}, orphaned_archives |-> {},
             orphaned_manifests |-> {}, dir |-> <<>>]
\* The ignore rules (ignorePatterns of the configuration, the .gitignore file of
\* the root) and a call of scanFilesGenerator: the directories it is in with the
\* position in each, the directories it has read, the entries it has skipped
\* and the paths it has yielded; why is the result of the last analyzeIgnore.
NoWhy == [file |-> <<>>, rule |-> Undefined, source |-> Undefined]
NoScan == [ignorePatterns |-> <<>>, gitignore |-> [present |-> FALSE, rules |-> <<>>],
           pc |-> "idle", stack |-> <<>>, read |-> {}, ignored |-> {}, yielded |-> <<>>,
           why |-> NoWhy]
\* The cleanBackups call; dir is a history field, the backup directory as the
\* command found it.
NoClean == [made |-> FALSE, limit |-> 0, dir |-> <<>>, error |-> Undefined]
\* auditOk: the audit log can be appended to; thrown: what the last createBackup
\* call threw.
NoBackups == [st |-> "idle", archives |-> <<>>, audit |-> <<>>, restore |-> NoRestore,
              report |-> NoReport, clean |-> NoClean, auditOk |-> TRUE, thrown |-> Undefined]
NoSummary == [total |-> -1, fulfilled |-> -1, rejected |-> -1, details |-> <<>>]
SessionEvents == {"run:start", "run:complete", "run:error", "backup:error", "backup:complete",
                  "watch:run:start", "session:shutdown:start", "session:stop"}

\* The limiter: activeCount, pendingCount.
Active == {t \in TaskIds : task[t].st \in {"active", "waiting", "backoff", "stuck"}}
activeCount == Cardinality(Active)
pendingCount == Len(queue)

Emit(name) == [emitted EXCEPT ![name] = @ + 1]

\* --------------------------------------------------- processFiles, per file
X(e) == exec[e]
F(e) == task[e[1]].file
\* The attempt that called this processFiles is still awaiting it.
Awaiting(e) == task[e[1]].st = "active" /\ task[e[1]].attempt = e[2]

Say(x, names) == [x EXCEPT !.events = @ \o names]

\* logger.debug(line), logger.error(line) of saveCache
Log(x, line) == [x EXCEPT !.log = Append(@, line)]


\* The event a listener kind is registered on.
EventOf(kind) ==
    CASE kind = "failProcessed" -> "file:processed"
      [] kind = "failError" -> "file:error"
      [] kind = "failValidate" -> "file:validate:fail"
      [] kind = "failHit" -> "file:cache:hit"
      [] OTHER -> "format:before"

On(event) == SelectSeq(env.listeners, LAMBDA k : EventOf(k) = event)

\* One listener called with the object p: the object it leaves, and whether it threw.
\*   stamp   rewrites the text of the object (the originalContent property)
\*   header  the license header plugin: fileData.content.trim() throws a TypeError
\*           when the object has no content property; else the header is prepended
\*   lint    a linting extension in strict mode: throws for the first file
\*   observe reads the object
Listen(kind, p) ==
    CASE kind = "stamp" -> [p |-> [p EXCEPT !.originalContent = "lic"], thrown |-> FALSE]
      [] kind = "header" ->
            IF p.content = Undefined
               THEN [p |-> p, thrown |-> TRUE]
               ELSE [p |-> [p EXCEPT !.content = "lic"], thrown |-> FALSE]
      [] kind \in {"lint", "failProcessed", "failError", "failValidate", "failHit"} ->
            [p |-> p, thrown |-> p.file = FileList[1]]
      [] OTHER -> [p |-> p, thrown |-> FALSE]

\* emitter.emit(event, p): the listeners are called synchronously in registration
\* order with the same object; a throw ends the emit and reaches the emitter's caller.
RECURSIVE Deliver(_, _, _)
Deliver(ls, p, seen) ==
    IF ls = <<>>
       THEN [p |-> p, seen |-> seen, thrown |-> FALSE]
       ELSE LET r == Listen(Head(ls), p)
            IN IF r.thrown
                  THEN [p |-> r.p, seen |-> Append(seen, p.originalContent), thrown |-> TRUE]
                  ELSE Deliver(Tail(ls), r.p, Append(seen, p.originalContent))

\* A per-file task that ends without the event.
FinishUnannounced(x) == [x EXCEPT !.pc = "tail"]

\* finally { emit('file:processed') }: the per-file task is over; Promise.all
\* and saveCache follow.  A listener's throw in the finally block rejects the
\* per-file task, and with it Promise.all and processFiles.
Finish(x) ==
    [Say(x, <<"file:processed">>) EXCEPT
        !.pc = IF Deliver(On("file:processed"), Payload(x.file, Undefined), <<>>).thrown
                  THEN "throw" ELSE "tail"]

\* if (originalContent): the empty string is falsy.
Truthy(c) == c # Undefined /\ c # "empty"

\* A catch block that records the error and saves no recovery file.
CaughtNoRecovery(x, err) ==
    Finish(Say([x EXCEPT !.stats.invalid = @ + 1, !.errors = Append(@, err)], <<"format:error">>))

\* catch (err) { stats.invalid++; errors.push(...); if (originalContent) await saveRecoveryFile(...);
\*               emit('format:error') }
Caught(x, err) ==
    LET y == [x EXCEPT !.stats.invalid = @ + 1, !.errors = Append(@, err)]
    IN IF Truthy(x.originalContent)
          THEN [y EXCEPT !.pc = "recover"]
          ELSE Finish(Say(y, <<"format:error">>))

\* if (!isValid) { stats.invalid++; errors.push(...); emit('file:validate:fail'); return; }
\* The emit is inside the try block: a listener's throw is caught after the
\* counter and the errors list have been updated.
Invalid(x, reason) ==
    LET y == Say([x EXCEPT !.stats.invalid = @ + 1, !.errors = Append(@, reason)],
                 <<"file:validate:fail">>)
    IN IF Deliver(On("file:validate:fail"), Payload(x.file, Undefined), <<>>).thrown
          THEN Caught(y, "Extension error")
          ELSE Finish(y)

\* A cache check that compares the fingerprint alone.
CacheHitByHash(files, f, hash, mtime) ==
    f \in DOMAIN files /\ files[f].hash = hash

\* cacheEntry && cacheEntry.hash === hash && cacheEntry.mtime === fileStat.mtimeMs
CacheHit(files, f, hash, mtime) ==
    f \in DOMAIN files /\ files[f].hash = hash /\ files[f].mtime = mtime

\* A miss that goes on to the formatter whatever the dry-run flag says.
MissedIgnoringDryRun(x, dryRun) ==
    [[x EXCEPT !.events = @ \o <<"format:before">>] EXCEPT !.pc = "format"]

\* A miss that is counted and left at that, whatever the dry-run flag says.
MissedAsDry(x, dryRun) ==
    [[x EXCEPT !.stats.formatted = @ + 1, !.events = @ \o <<"file:processed">>] EXCEPT !.pc = "tail"]

\* if (dryRun) { stats.formatted++; return; } else emit('format:before', { file,
\* originalContent }) and go on to the formatter; a listener's throw is caught.
Missed(x, dryRun) ==
    IF dryRun
       THEN Finish([x EXCEPT !.stats.formatted = @ + 1])
       ELSE LET d == Deliver(On("format:before"), Payload(x.file, x.originalContent), <<>>)
                y == [Say(x, <<"format:before">>) EXCEPT !.payload = d.p, !.seen = d.seen]
            IN IF d.thrown
                  THEN Caught(y, "Extension error")
                  ELSE [y EXCEPT !.pc = "format"]

\* After validateFile returned {isValid: true, hash}: the cache check.  The emit
\* of file:cache:hit follows stats.skipped++ inside the try block.
Validated(x, f, hash) ==
    LET y == [x EXCEPT !.hash = hash,
                       !.cacheEntry = IF f \in DOMAIN cache.files THEN <<cache.files[f]>> ELSE <<>>]
        hit == Say([y EXCEPT !.stats.skipped = @ + 1], <<"file:cache:hit">>)
    IN IF CacheHit(cache.files, f, hash, x.fileStat.mtime)
          THEN IF Deliver(On("file:cache:hit"), Payload(x.file, Undefined), <<>>).thrown
                  THEN Caught(hit, "Extension error")
                  ELSE Finish(hit)
          ELSE Missed(Say(y, <<"file:cache:miss">>), options.dryRun)

\* state.cache.files[file] = entry
CachePut(f, entry) ==
    [cache EXCEPT !.files = [g \in DOMAIN cache.files \cup {f} |->
                                IF g = f THEN entry ELSE cache.files[g]]]

Step(e, x) == exec' = [exec EXCEPT ![e] = x]

WatchUnchanged == UNCHANGED <<watcher, changeBuffer, debounceTimer>>

RunnerUnchanged == UNCHANGED <<env, config, options, shuttingDown, polling, phase, session,
                               task, queue, fileLocks, watcher, changeBuffer, debounceTimer,
                               summary, emitted, firstRun, bk, sc, resolved>>

\* const fileStat = await fs.stat(file)
ExecStat(e) ==
    /\ X(e).pc = "stat"
    /\ Step(e, [X(e) EXCEPT !.pc = "read",
                            !.fileStat = [size |-> Size(disk[F(e)].content),
                                          mtime |-> disk[F(e)].mtime]])
    /\ UNCHANGED <<disk, clock, cacheFile, tempFile, recovery, cache, cacheLock>>
    /\ RunnerUnchanged

\* originalContent = await fs.readFile(file); then validateFile up to its own read.
ExecRead(e) ==
    /\ X(e).pc = "read"
    /\ LET x == [X(e) EXCEPT !.originalContent = disk[F(e)].content]
       IN Step(e, IF x.fileStat.size = 0
                     THEN Validated(Say(x, <<"file:validate:skip">>), F(e), Undefined)
                  ELSE IF x.fileStat.size > maxFileSize
                     THEN Invalid(x, "File too large")
                  ELSE [x EXCEPT !.pc = "validate"])
    /\ UNCHANGED <<disk, clock, cacheFile, tempFile, recovery, cache, cacheLock>>
    /\ RunnerUnchanged

\* validateFile: content = await fs.readFile(filePath); hash; syntax check.
ExecValidate(e) ==
    /\ X(e).pc = "validate"
    /\ LET content == disk[F(e)].content
           syntaxChecked == extname(F(e)) \in {"json", "jsonc", "js", "mjs", "cjs", "ts", "jsx", "tsx"}
       IN Step(e, IF syntaxChecked /\ ~Parses(content)
                     THEN Invalid(X(e), IF extname(F(e)) \in {"json", "jsonc"}
                                           THEN "Invalid JSON syntax"
                                           ELSE "Invalid JS/TS syntax")
                     ELSE Validated(Say(X(e), <<"file:validated">>), F(e), safeHash(content)))
    /\ UNCHANGED <<disk, clock, cacheFile, tempFile, recovery, cache, cacheLock>>
    /\ RunnerUnchanged

\* formatted = await prettier.format(originalContent, ...); emit('format:after');
\* unchanged content updates the cache at once, changed content is written.  The
\* assignment state.cache.files[file] = ... throws in a module (strict mode) when
\* `files` is a number.
ExecFormat(e) ==
    /\ X(e).pc = "format"
    /\ LET x == X(e)
           formatted == Format(x.originalContent)
       IN IF FormatThrows(x.originalContent)
             THEN Step(e, Caught(x, "Formatter error")) /\ UNCHANGED cache
          ELSE IF x.originalContent # formatted
             THEN /\ Step(e, [Say(x, <<"format:after">>) EXCEPT !.formatted = formatted, !.pc = "write"])
                  /\ UNCHANGED cache
          ELSE IF cache.filesIs # "object"
             THEN /\ Step(e, Caught([Say(x, <<"format:after">>) EXCEPT !.formatted = formatted], "TypeError"))
                  /\ UNCHANGED cache
          ELSE /\ Step(e, Finish([Say(x, <<"format:after">>) EXCEPT
                                     !.formatted = formatted, !.stats.unchanged = @ + 1]))
               /\ cache' = CachePut(F(e), [hash |-> x.hash, mtime |-> x.fileStat.mtime])
    /\ UNCHANGED <<disk, clock, cacheFile, tempFile, recovery, cacheLock>>
    /\ RunnerUnchanged

\* A write that goes on to the cache update without the readback.
ExecWriteUnverified(e) ==
    /\ X(e).pc = "write"
    /\ \E written \in (IF F(e) = env.intercept THEN Corruptions(X(e).formatted) ELSE {X(e).formatted}) :
          disk' = [disk EXCEPT ![F(e)] = [content |-> written, mtime |-> clock + 1]]
    /\ clock' = clock + 1
    /\ Step(e, [X(e) EXCEPT !.pc = "restat"])
    /\ UNCHANGED <<cacheFile, tempFile, recovery, cache, cacheLock>>
    /\ RunnerUnchanged

\* await fs.writeFile(file, formatted); emit('file:verify:start').  A write to the
\* intercepted path leaves other content on disk.
ExecWrite(e) ==
    /\ X(e).pc = "write"
    /\ \E written \in (IF F(e) = env.intercept THEN Corruptions(X(e).formatted) ELSE {X(e).formatted}) :
          disk' = [disk EXCEPT ![F(e)] = [content |-> written, mtime |-> clock + 1]]
    /\ clock' = clock + 1
    /\ Step(e, [Say(X(e), <<"file:verify:start">>) EXCEPT !.pc = "readback"])
    /\ UNCHANGED <<cacheFile, tempFile, recovery, cache, cacheLock>>
    /\ RunnerUnchanged

\* writtenContent = await fs.readFile(file); compare safeHash(formatted) with
\* safeHash(writtenContent); a mismatch throws.
ExecReadback(e) ==
    /\ X(e).pc = "readback"
    /\ LET newHash == safeHash(X(e).formatted)
           writtenHash == safeHash(disk[F(e)].content)
       IN Step(e, IF newHash # writtenHash
                     THEN Caught(X(e), "Integrity check failed")
                     ELSE [Say(X(e), <<"file:verify:success">>) EXCEPT !.pc = "restat"])
    /\ UNCHANGED <<disk, clock, cacheFile, tempFile, recovery, cache, cacheLock>>
    /\ RunnerUnchanged

\* updatedStat = await fs.stat(file); state.cache.files[file] = {hash: newHash, mtime}; stats.formatted++
ExecRestat(e) ==
    /\ X(e).pc = "restat"
    /\ IF cache.filesIs # "object"
          THEN /\ Step(e, Caught(X(e), "TypeError"))
               /\ UNCHANGED cache
          ELSE /\ cache' = CachePut(F(e), [hash |-> safeHash(X(e).formatted), mtime |-> disk[F(e)].mtime])
               /\ Step(e, Finish([X(e) EXCEPT !.stats.formatted = @ + 1]))
    /\ UNCHANGED <<disk, clock, cacheFile, tempFile, recovery, cacheLock>>
    /\ RunnerUnchanged

\* saveRecoveryFile(file, originalContent): its own failure is logged and swallowed;
\* then emit('format:error').
ExecRecover(e) ==
    /\ X(e).pc = "recover"
    /\ IF env.recoveryOk
          THEN /\ recovery' = recovery \cup {<<F(e), X(e).originalContent>>}
               /\ Step(e, Finish(Say(X(e), <<"file:recovery:saved", "format:error">>)))
          ELSE /\ UNCHANGED recovery
               /\ Step(e, Finish(Say(X(e), <<"format:error">>)))
    /\ UNCHANGED <<disk, clock, cacheFile, tempFile, cache, cacheLock>>
    /\ RunnerUnchanged

\* ------------------------------------------------------ the runner's tasks
\* The promise of task t settles: t and every task that was handed t's promise
\* settle alike; finally { fileLocks.delete(filePath) }.
Settled(t, status, err, res) ==
    [u \in TaskIds |->
        IF u = t \/ (task[u].st = "waiting" /\ task[u].owner = t)
           THEN [task[u] EXCEPT !.st = status, !.error = err, !.result = res,
                                !.rank = 1 + Cardinality({v \in TaskIds : task[v].rank > 0})]
           ELSE task[u]]

Settle(t, status, err, res) ==
    /\ task' = Settled(t, status, err, res)
    /\ fileLocks' = [fileLocks EXCEPT ![task[t].file] = 0]

\* processFiles returned {stats, errors}: Promise.race resolves for the attempt
\* that still awaits it (emit('file:complete'); resolve(result)); the result of an
\* attempt that timed out is ignored.
Return(e, x) ==
    /\ Step(e, [x EXCEPT !.pc = "done"])
    /\ IF Awaiting(e)
          THEN Settle(e[1], "fulfilled", Undefined, [stats |-> x.stats, errors |-> x.errors])
          ELSE UNCHANGED <<task, fileLocks>>

SessionUnchanged == UNCHANGED <<env, config, options, shuttingDown, polling, phase, session,
                                queue, watcher, changeBuffer, debounceTimer, summary, emitted,
                                firstRun, bk, sc, resolved>>

\* await Promise.all(tasks); await saveCache(): a save that finds the lock set is
\* dropped, otherwise the lock is taken and the write of the temporary file begins.
ExecSaveCache(e) ==
    /\ X(e).pc = "tail"
    /\ IF cacheLock
          THEN /\ Return(e, Log(X(e), "Cache save skipped, lock is active."))
               /\ UNCHANGED <<cacheLock, tempFile>>
          ELSE /\ cacheLock' = TRUE
               /\ tempFile' = [kind |-> "writing", data |-> cache]
               /\ Step(e, [X(e) EXCEPT !.pc = "saveWrite"])
               /\ UNCHANGED <<task, fileLocks>>
    /\ UNCHANGED <<disk, clock, cacheFile, recovery, cache>>
    /\ SessionUnchanged

\* The outcomes of a write into the directory of the cache file: it succeeds, and
\* where the environment refuses writes it may also fail.
Succeeds == IF env.saveFail THEN BOOLEAN ELSE {TRUE}

\* A save that writes the cache file in place.
ExecSaveWriteInPlace(e) ==
    /\ X(e).pc = "saveWrite"
    /\ cacheFile' = tempFile
    /\ tempFile' = [tempFile EXCEPT !.kind = "json"]
    /\ Step(e, [X(e) EXCEPT !.pc = "saveRename"])
    /\ UNCHANGED <<disk, clock, recovery, cache, cacheLock, task, fileLocks>>
    /\ SessionUnchanged

\* await fs.writeFile(tempFile, JSON.stringify(state.cache)): the temporary file is
\* complete, or the write throws, leaves what it wrote, and the catch block is
\* entered.
ExecSaveWrite(e) ==
    /\ X(e).pc = "saveWrite"
    /\ \E ok \in Succeeds :
          IF ok
             THEN /\ tempFile' = [tempFile EXCEPT !.kind = "json"]
                  /\ Step(e, [X(e) EXCEPT !.pc = "saveRename"])
             ELSE /\ UNCHANGED tempFile
                  /\ Step(e, [Log(X(e), "Failed to save cache:") EXCEPT !.pc = "saveUnlink"])
    /\ UNCHANGED <<disk, clock, cacheFile, recovery, cache, cacheLock, task, fileLocks>>
    /\ SessionUnchanged

\* A rename whose failure leaves the lock set.
ExecSaveRenameKeepingLock(e) ==
    /\ X(e).pc = "saveRename"
    /\ \E ok \in Succeeds :
          IF ok
             THEN /\ cacheFile' = tempFile
                  /\ tempFile' = NoFile
                  /\ cacheLock' = FALSE
                  /\ Return(e, Say(X(e), <<"cache:saved">>))
             ELSE /\ UNCHANGED <<cacheFile, cacheLock>>
                  /\ tempFile' = NoFile
                  /\ Return(e, Log(X(e), "Failed to save cache:"))
    /\ UNCHANGED <<disk, clock, recovery, cache>>
    /\ SessionUnchanged

\* await fs.rename(tempFile, cacheFile); emit('cache:saved'); finally unlock; return.
\* A rename that throws leaves both files and the catch block is entered.
ExecSaveRename(e) ==
    /\ X(e).pc = "saveRename"
    /\ \E ok \in Succeeds :
          IF ok
             THEN /\ cacheFile' = tempFile
                  /\ tempFile' = NoFile
                  /\ cacheLock' = FALSE
                  /\ Return(e, Say(X(e), <<"cache:saved">>))
             ELSE /\ UNCHANGED <<cacheFile, tempFile, cacheLock>>
                  /\ Step(e, [Log(X(e), "Failed to save cache:") EXCEPT !.pc = "saveUnlink"])
                  /\ UNCHANGED <<task, fileLocks>>
    /\ UNCHANGED <<disk, clock, recovery, cache>>
    /\ SessionUnchanged

\* catch (err) { await fs.unlink(tempFile).catch(() => {}) } finally { cacheLock =
\* false }: saveCache returns normally, and processFiles with it.
ExecSaveUnlink(e) ==
    /\ X(e).pc = "saveUnlink"
    /\ tempFile' = NoFile
    /\ cacheLock' = FALSE
    /\ Return(e, X(e))
    /\ UNCHANGED <<disk, clock, cacheFile, recovery, cache>>
    /\ SessionUnchanged

\* The process is killed in the middle of a save: what it held in memory is gone,
\* the files stay as they are.
Killed ==
    /\ cacheLock
    /\ phase = "processing"
    /\ phase' = "killed"
    /\ cache' = UnsetCache
    /\ cacheLock' = FALSE
    /\ task' = [t \in TaskIds |-> NoTask]
    /\ queue' = <<>>
    /\ fileLocks' = [f \in Files |-> 0]
    /\ exec' = [e \in ExecIds |-> NoExec]
    /\ UNCHANGED <<disk, clock, cacheFile, tempFile, recovery, env, config, options, shuttingDown,
                   polling, session, watcher, changeBuffer, debounceTimer, summary, emitted,
                   firstRun, bk, sc, resolved>>

\* A processFiles call begins: stats.total++ and the per-file task issues fs.stat.
Started(f) == [NoExec EXCEPT !.pc = "stat", !.file = f, !.stats.total = 1]

DiskUnchanged == UNCHANGED <<disk, clock, cacheFile, tempFile, recovery, cache, cacheLock>>

\* A lock table that is never consulted.
LockedNever(f) == FALSE

\* this.state.fileLocks.has(filePath)
Locked(f) == fileLocks[f] # 0

\* The calls for path f whose attempt loop is running.
Unsettled(f) == {u \in TaskIds : task[u].file = f /\ task[u].owner = u
                                    /\ task[u].st \in {"active", "backoff"}}

\* The limiter starts its next pending task: _processFileWithRobustness(filePath)
\* up to its first await.
StartTask ==
    /\ queue # <<>>
    /\ activeCount < options.concurrency
    /\ LET t == Head(queue)
           f == task[t].file
           called == [task[t] EXCEPT !.during = Unsettled(f)]
       IN /\ queue' = Tail(queue)
          /\ IF Locked(f)
                THEN /\ task' = [task EXCEPT ![t] = [called EXCEPT !.st = "waiting",
                                                                    !.owner = fileLocks[f]]]
                     /\ UNCHANGED <<fileLocks, exec>>
             ELSE IF shuttingDown
                THEN /\ task' = [task EXCEPT ![t] = [called EXCEPT !.st = "rejected", !.attempt = 1,
                                                                    !.owner = t,
                                                                    !.error = "Shutdown initiated"]]
                     /\ UNCHANGED <<fileLocks, exec>>
             ELSE /\ task' = [task EXCEPT ![t] = [called EXCEPT !.st = "active", !.attempt = 1,
                                                                 !.owner = t]]
                  /\ fileLocks' = [fileLocks EXCEPT ![f] = t]
                  /\ exec' = [exec EXCEPT ![<<t, 1>>] = Started(f)]
    /\ DiskUnchanged
    /\ WatchUnchanged
    /\ UNCHANGED <<env, config, options, shuttingDown, polling, phase, session, summary,
                   emitted, firstRun, bk, sc, resolved>>

\* An attempt loop that gives up at the first failure.
AttemptFailedOnce(t, err) ==
    IF Deliver(On("file:error"), Payload(task[t].file, Undefined), <<>>).thrown
       THEN /\ task' = [task EXCEPT ![t].st = "stuck", ![t].error = err]
            /\ UNCHANGED fileLocks
       ELSE Settle(t, "rejected", err, NoResult)

\* setTimeout(r, 200 * attempt): the delay before the attempt after `attempt`.
backoff(attempt) == 200 * attempt

\* catch (err) of the attempt loop: emit('file:error'), then reject on the last
\* attempt, else emit('file:retry') and back off.  A throw of a file:error
\* listener rejects the promise of the async executor, which nothing awaits:
\* lockPromise stays pending, the lock and the limiter's slot are never released.
AttemptFailed(t, err) ==
    IF Deliver(On("file:error"), Payload(task[t].file, Undefined), <<>>).thrown
       THEN /\ task' = [task EXCEPT ![t].st = "stuck", ![t].error = err]
            /\ UNCHANGED fileLocks
    ELSE IF task[t].attempt > options.retry
       THEN Settle(t, "rejected", err, NoResult)
    ELSE /\ task' = [task EXCEPT ![t].st = "backoff", ![t].delays = Append(@, backoff(task[t].attempt))]
         /\ UNCHANGED fileLocks

\* The timer of the attempt fires before processFiles returned.
Timeout(t) ==
    /\ task[t].st = "active"
    /\ t \in env.slow
    /\ AttemptFailed(t, "Processing timed out")
    /\ DiskUnchanged
    /\ UNCHANGED exec
    /\ SessionUnchanged

\* processFiles rejected (a throw out of a per-file task): the catch block of the
\* attempt that awaits it; cache is not saved.
ExecThrow(e) ==
    /\ X(e).pc = "throw"
    /\ Step(e, [X(e) EXCEPT !.pc = "done"])
    /\ IF Awaiting(e)
          THEN AttemptFailed(e[1], "Extension error")
          ELSE UNCHANGED <<task, fileLocks>>
    /\ UNCHANGED <<disk, clock, cacheFile, tempFile, recovery, cache, cacheLock>>
    /\ SessionUnchanged

\* A next turn of the attempt loop that does not look at the shutdown flag.
RetryAttemptRegardless(t) ==
    /\ task[t].st = "backoff"
    /\ task' = [task EXCEPT ![t].st = "active", ![t].attempt = @ + 1]
    /\ exec' = [exec EXCEPT ![<<t, task[t].attempt + 1>>] = Started(task[t].file)]
    /\ UNCHANGED fileLocks
    /\ DiskUnchanged
    /\ SessionUnchanged

\* The backoff delay is over: the next turn of the attempt loop.
RetryAttempt(t) ==
    /\ task[t].st = "backoff"
    /\ IF shuttingDown
          THEN /\ Settle(t, "rejected", "Shutdown initiated", NoResult)
               /\ UNCHANGED exec
          ELSE /\ task' = [task EXCEPT ![t].st = "active", ![t].attempt = @ + 1]
               /\ exec' = [exec EXCEPT ![<<t, task[t].attempt + 1>>] = Started(task[t].file)]
               /\ UNCHANGED fileLocks
    /\ DiskUnchanged
    /\ SessionUnchanged

\* ------------------------------------------------------------- the session
\* A load that compares the version alone.
loadCacheByVersion(file, cfg) ==
    IF file.kind # "json"
       THEN FreshCache(cfg)
    ELSE IF file.data.version # cfg.cacheVersion
       THEN FreshCache(cfg)
    ELSE file.data

\* loadCache: a missing, unreadable or unparseable file, or one of another version
\* or configuration, gives a fresh cache; otherwise the parsed file is the cache,
\* and Object.keys(state.cache.files) throws inside the try block when `files`
\* is undefined (the catch block gives a fresh cache) and returns [] when it is
\* a number.
loadCache(file, cfg) ==
    IF file.kind # "json"
       THEN FreshCache(cfg)
    ELSE IF file.data.version # cfg.cacheVersion \/ file.data.configHash # cfg.configHash
       THEN FreshCache(cfg)
    ELSE IF file.data.filesIs = "undefined"
       THEN FreshCache(cfg)
    ELSE file.data

\* QuantumRunner.initialize: loadConfig was done, Core.initialize loads the cache.
Initialize ==
    /\ phase = "initializing"
    /\ cache' = loadCache(cacheFile, config)
    /\ phase' = "ready"
    /\ UNCHANGED <<disk, clock, cacheFile, tempFile, recovery, cacheLock, env, config, options,
                   shuttingDown, polling, session, task, queue, fileLocks, exec, watcher,
                   changeBuffer, debounceTimer, summary, emitted, firstRun, bk, sc, resolved>>

Settlement(t) == task[t].st \in {"fulfilled", "rejected"}

\* scanFilesGenerator(rootDir): the files of the tree, in directory order.
RECURSIVE Listed(_, _)
Listed(i, present) ==
    IF i > NumFiles THEN <<>>
    ELSE (IF FileList[i] \in present THEN <<FileList[i]>> ELSE <<>>) \o Listed(i + 1, present)

filesToProcess == Listed(1, DOMAIN disk)
Scanned == 1..Len(filesToProcess)

\* processingTasks = filesToProcess.map(file => this.queue(...)): one limiter task
\* per scanned file, in scan order.
Submitted ==
    [i \in TaskIds |->
        IF i \in Scanned
           THEN [NoTask EXCEPT !.file = filesToProcess[i], !.st = "pending"]
           ELSE task[i]]

\* A call of gracefulShutdown resolves: what the limiter held and whether
\* session:stop had been emitted at that moment.
Resolves(drained, stopped) == resolved' = resolved \cup {[drained |-> drained, stopped |-> stopped]}

\* if (this.state.shuttingDown) return: a call made once the flag is set resolves
\* at once, whatever the call that set the flag is doing.
ReturnsAtOnce == Resolves(activeCount = 0 /\ pendingCount = 0, emitted["session:stop"] > 0)

\* _runOnce up to its first await after the scan: with backup enabled and dry-run
\* disabled createBackup is called and awaited, otherwise the limiter tasks are
\* created at once.  When the session is shutting down _runOnce returns at once,
\* and in watch mode _startWatcher goes on to create the watcher.
RunOnce ==
    /\ phase = "ready"
    /\ IF shuttingDown
          THEN /\ phase' = IF options.watch THEN "watching" ELSE "done"
               /\ watcher' = options.watch
               /\ IF options.watch THEN UNCHANGED resolved ELSE ReturnsAtOnce
               /\ UNCHANGED <<task, queue, emitted, bk>>
       ELSE IF options.backup /\ ~options.dryRun
          THEN /\ phase' = "backup"
               /\ bk' = [bk EXCEPT !.st = "running"]
               /\ emitted' = Emit("run:start")
               /\ UNCHANGED <<task, queue, watcher, resolved>>
          ELSE /\ phase' = "processing"
               /\ task' = Submitted
               /\ queue' = [i \in Scanned |-> i]
               /\ emitted' = Emit("run:start")
               /\ UNCHANGED <<watcher, bk, resolved>>
    /\ DiskUnchanged
    /\ UNCHANGED <<changeBuffer, debounceTimer>>
    /\ UNCHANGED <<env, config, options, shuttingDown, polling, session, fileLocks, exec,
                   summary, firstRun, sc>>

\* getStreamHash(archivePath, algorithm): the digest of the bytes of the archive.
getStreamHash(a) == <<"sha256", a.bytes, a.damaged>>

\* writeAudit(action, details): mkdir, then appendFile of the entry, which is
\* appended or throws (a log that is read-only, a full disk).
writeAudit(b, action, status) ==
    IF b.auditOk THEN [b EXCEPT !.audit = Append(@, <<action, status>>)] ELSE b

\* catch (error) { await writeAudit(action, {status: 'FAILURE', ...}); throw error }:
\* what leaves the catch block is the error, or what writeAudit threw before
\* the throw statement was reached.
Thrown(b, error) == IF b.auditOk THEN error ELSE "EACCES"

\* createBackup(fileList) on the backup directory b: the archive of the files as
\* they are now, its manifest with the digest of the fresh archive, and a SUCCESS
\* entry in the audit log, written inside the try block; on failure a FAILURE
\* entry, and the error is rethrown.
createBackup(b, fileList, ok) ==
    IF ok
       THEN LET a == [bytes |-> [f \in {fileList[i] : i \in DOMAIN fileList} |-> disk[f].content],
                      damaged |-> FALSE]
                made == [b EXCEPT !.archives = Append(@, [bytes |-> a.bytes, damaged |-> FALSE,
                                                          manifest |-> getStreamHash(a),
                                                          present |-> TRUE, mf |-> "ok"])]
            IN IF b.auditOk
                  THEN [writeAudit(made, "createBackup", "SUCCESS") EXCEPT !.thrown = Undefined]
                  ELSE [writeAudit(made, "createBackup", "FAILURE") EXCEPT
                           !.thrown = Thrown(b, "EACCES")]
       ELSE [writeAudit(b, "createBackup", "FAILURE") EXCEPT !.thrown = Thrown(b, "Backup failed")]

\* The createBackup call of the run settles.
CreateBackup ==
    /\ bk.st = "running"
    /\ LET b == createBackup(bk, filesToProcess, env.backupOk)
       IN bk' = [b EXCEPT !.st = IF b.thrown = Undefined THEN "ok" ELSE "failed"]
    /\ DiskUnchanged
    /\ WatchUnchanged
    /\ UNCHANGED <<env, config, options, shuttingDown, polling, phase, session, task, queue,
                   fileLocks, exec, summary, emitted, firstRun, sc, resolved>>

\* A run that goes on to the processing phase without awaiting createBackup.
StartProcessingUnawaited ==
    /\ phase = "backup"
    /\ phase' = "processing"
    /\ task' = Submitted
    /\ queue' = [i \in Scanned |-> i]
    /\ emitted' = [emitted EXCEPT !["backup:complete"] = @ + 1]
    /\ DiskUnchanged
    /\ WatchUnchanged
    /\ UNCHANGED <<env, config, options, shuttingDown, polling, session, fileLocks, exec,
                   summary, firstRun, bk, sc, resolved>>

\* A run in which a failure of createBackup reaches the catch block of _runOnce.
StartProcessingOrFail ==
    /\ phase = "backup"
    /\ bk.st \in {"ok", "failed"}
    /\ IF bk.st = "failed"
          THEN /\ phase' = "done"
               /\ emitted' = [emitted EXCEPT !["run:error"] = @ + 1]
               /\ UNCHANGED <<task, queue>>
          ELSE /\ phase' = "processing"
               /\ task' = Submitted
               /\ queue' = [i \in Scanned |-> i]
               /\ emitted' = [emitted EXCEPT !["backup:complete"] = @ + 1]
    /\ DiskUnchanged
    /\ WatchUnchanged
    /\ UNCHANGED <<env, config, options, shuttingDown, polling, session, fileLocks, exec,
                   summary, firstRun, bk, sc, resolved>>

\* await createBackup(filesToProcess).catch(...) is over: backup:error if it
\* failed, backup:complete, then one limiter task per scanned file.
StartProcessing ==
    /\ phase = "backup"
    /\ bk.st \in {"ok", "failed"}
    /\ phase' = "processing"
    /\ task' = Submitted
    /\ queue' = [i \in Scanned |-> i]
    /\ emitted' = [emitted EXCEPT !["backup:error"] = @ + (IF bk.st = "failed" THEN 1 ELSE 0),
                                  !["backup:complete"] = @ + 1]
    /\ DiskUnchanged
    /\ WatchUnchanged
    /\ UNCHANGED <<env, config, options, shuttingDown, polling, session, fileLocks, exec,
                   summary, firstRun, bk, sc, resolved>>

\* A summary whose details are in the order the promises settled.
SummaryInCompletionOrder ==
    [total |-> Len(filesToProcess),
     fulfilled |-> Cardinality({i \in Scanned : task[i].st = "fulfilled"}),
     rejected |-> Cardinality({i \in Scanned : task[i].st = "rejected"}),
     details |-> [i \in Scanned |->
                    LET t == CHOOSE u \in Scanned : task[u].rank = i
                    IN [status |-> task[t].st, reason |-> task[t].error, value |-> task[t].result]]]

\* results = await Promise.allSettled(processingTasks); the summary; run:complete.
Summary ==
    [total |-> Len(filesToProcess),
     fulfilled |-> Cardinality({i \in Scanned : task[i].st = "fulfilled"}),
     rejected |-> Cardinality({i \in Scanned : task[i].st = "rejected"}),
     details |-> [i \in Scanned |->
                    [status |-> task[i].st, reason |-> task[i].error, value |-> task[i].result]]]

\* _runOnce ends.  One-shot: run() calls gracefulShutdown, and with the limiter
\* drained the polling loop is not entered and session:stop follows at once.
\* Watch mode: _startWatcher goes on to create the watcher.
RunComplete ==
    /\ phase = "processing"
    /\ \A i \in Scanned : Settlement(i)
    /\ summary' = Summary
    /\ IF options.watch
          THEN /\ phase' = "watching"
               /\ watcher' = TRUE
               /\ emitted' = Emit("run:complete")
               /\ UNCHANGED <<shuttingDown, resolved>>
          ELSE /\ phase' = "done"
               /\ UNCHANGED watcher
               /\ IF shuttingDown
                     THEN /\ emitted' = Emit("run:complete")
                          /\ ReturnsAtOnce
                          /\ UNCHANGED shuttingDown
                     ELSE /\ shuttingDown' = TRUE
                          /\ emitted' = [emitted EXCEPT !["run:complete"] = @ + 1,
                                                        !["session:shutdown:start"] = @ + 1,
                                                        !["session:stop"] = @ + 1]
                          /\ Resolves(TRUE, TRUE)
    /\ DiskUnchanged
    /\ UNCHANGED <<env, config, options, polling, session, task, queue, fileLocks, exec,
                   changeBuffer, debounceTimer, firstRun, bk, sc>>

\* handleChange(filePath): a change notification of the watcher.
FileChanged(f) ==
    /\ watcher
    /\ Cardinality({t \in TaskIds \ Scanned : task[t].st # "none"})
          + Cardinality(changeBuffer \cup {f}) <= MaxChanges
    /\ IF shuttingDown
          THEN UNCHANGED <<changeBuffer, debounceTimer>>
          ELSE /\ changeBuffer' = changeBuffer \cup {f}
               /\ debounceTimer' = TRUE
    /\ DiskUnchanged
    /\ UNCHANGED <<env, config, options, shuttingDown, polling, phase, session, task, queue,
                   fileLocks, exec, watcher, summary, emitted, firstRun, bk, sc, resolved>>

FirstFree == CHOOSE t \in TaskIds : task[t].st = "none" /\ \A u \in TaskIds : u < t => task[u].st # "none"

\* A timer callback that leaves the buffer as it is.
DebounceFireKeepingBuffer ==
    /\ debounceTimer
    /\ debounceTimer' = FALSE
    /\ UNCHANGED changeBuffer
    /\ LET files == Listed(1, changeBuffer)
           first == IF files = <<>> THEN 0 ELSE FirstFree
       IN /\ task' = [t \in TaskIds |->
                        IF first # 0 /\ t >= first /\ t < first + Len(files)
                           THEN [NoTask EXCEPT !.file = files[t - first + 1], !.st = "pending"]
                           ELSE task[t]]
          /\ queue' = queue \o [i \in 1..Len(files) |-> first + i - 1]
          /\ emitted' = IF files = <<>> THEN emitted ELSE Emit("watch:run:start")
    /\ DiskUnchanged
    /\ UNCHANGED <<env, config, options, shuttingDown, polling, phase, session, fileLocks, exec,
                   watcher, summary, firstRun, bk, sc, resolved>>

\* The debounce timer fires: the buffer is copied and cleared, and for a
\* non-empty copy emit('watch:run:start') and one limiter task per buffered path.
DebounceFire ==
    /\ debounceTimer
    /\ debounceTimer' = FALSE
    /\ changeBuffer' = {}
    /\ LET files == Listed(1, changeBuffer)
           first == IF files = <<>> THEN 0 ELSE FirstFree
       IN /\ task' = [t \in TaskIds |->
                        IF first # 0 /\ t >= first /\ t < first + Len(files)
                           THEN [NoTask EXCEPT !.file = files[t - first + 1], !.st = "pending"]
                           ELSE task[t]]
          /\ queue' = queue \o [i \in 1..Len(files) |-> first + i - 1]
          /\ emitted' = IF files = <<>> THEN emitted ELSE Emit("watch:run:start")
    /\ DiskUnchanged
    /\ UNCHANGED <<env, config, options, shuttingDown, polling, phase, session, fileLocks, exec,
                   watcher, summary, firstRun, bk, sc, resolved>>

\* gracefulShutdown called from outside (emitter.shutdown, a signal) while the
\* session runs: the flag, the watcher, the debounce timer, then the polling loop.
GracefulShutdown ==
    /\ phase \in {"ready", "processing", "watching"}
    /\ ~shuttingDown
    /\ shuttingDown' = TRUE
    /\ watcher' = FALSE
    /\ debounceTimer' = FALSE
    /\ IF activeCount > 0 \/ pendingCount > 0
          THEN /\ polling' = TRUE
               /\ emitted' = Emit("session:shutdown:start")
               /\ UNCHANGED resolved
          ELSE /\ polling' = FALSE
               /\ emitted' = [emitted EXCEPT !["session:shutdown:start"] = @ + 1,
                                             !["session:stop"] = @ + 1]
               /\ Resolves(TRUE, TRUE)
    /\ DiskUnchanged
    /\ UNCHANGED <<env, config, options, phase, session, task, queue, fileLocks, exec,
                   changeBuffer, summary, firstRun, bk, sc>>

\* gracefulShutdown called again (a second signal, emitter.shutdown, the catch of
\* runQuantumFormatter) once the flag is set: the call returns at its first line.
GracefulShutdownAgain ==
    /\ phase \in {"ready", "processing", "watching"}
    /\ shuttingDown
    /\ ReturnsAtOnce
    /\ DiskUnchanged
    /\ WatchUnchanged
    /\ UNCHANGED <<env, config, options, shuttingDown, polling, phase, session, task, queue,
                   fileLocks, exec, summary, emitted, firstRun, bk, sc>>

\* The polling loop of gracefulShutdown finds the limiter drained.
ShutdownPoll ==
    /\ polling
    /\ activeCount = 0 /\ pendingCount = 0
    /\ polling' = FALSE
    /\ emitted' = Emit("session:stop")
    /\ Resolves(TRUE, TRUE)
    /\ DiskUnchanged
    /\ WatchUnchanged
    /\ UNCHANGED <<env, config, options, shuttingDown, phase, session, task, queue, fileLocks,
                   exec, summary, firstRun, bk, sc>>

\* How the processFiles calls of a session classified file f.
Classes(f) ==
    {c \in {"formatted", "skipped", "unchanged", "invalid"} :
        \E e \in ExecIds : task[e[1]].file = f /\ exec[e].pc = "done" /\ exec[e].stats[c] = 1}

Quiescent == \A e \in ExecIds : exec[e].pc \in {"none", "done"}

\* ------------------------------------------------------- the restore command
\* A comparison that accepts every archive.
IntactAlways(a) == TRUE

\* currentHash === manifestData.archiveHash
Intact(a) == getStreamHash(a) = a.manifest

\* A catch block that rethrows every error as it is.
RethrownAsIs(error, onManifest) == error

\* The catch block of restoreBackup: if (error.code === 'ENOENT' && error.path ===
\* manifestPath) throw new ManifestNotFoundError(...); throw error.
Rethrown(error, onManifest) ==
    IF error = "ENOENT" /\ onManifest THEN "ManifestNotFoundError" ELSE error

\* Bytes of an archive change after its creation (bit rot, a truncated copy).
DamageArchive(n) ==
    /\ phase = "done"
    /\ bk.restore.pc = "none"
    /\ ~bk.archives[n].damaged
    /\ bk' = [bk EXCEPT !.archives[n].damaged = TRUE]
    /\ DiskUnchanged
    /\ WatchUnchanged
    /\ UNCHANGED <<env, config, options, shuttingDown, polling, phase, session, task, queue,
                   fileLocks, exec, summary, emitted, firstRun, sc, resolved>>

\* restoreBackup(filename), called once the formatting run has ended, up to the
\* comparison of the digests.  readFile of an absent manifest fails with ENOENT
\* on the manifest path, which the catch block turns into ManifestNotFoundError;
\* JSON.parse of an unreadable one throws a SyntaxError; getStreamHash of an
\* absent archive fails with ENOENT on the archive path; a mismatch throws
\* IntegrityMismatchError.  The catch block writes a FAILURE entry to the audit
\* log and rethrows.
RestoreBackup(n) ==
    /\ phase = "done"
    /\ ~polling
    /\ Quiescent
    /\ bk.restore.pc = "none"
    /\ LET call == [NoRestore EXCEPT !.name = n, !.tree = disk, !.count = Len(bk.archives)]
           a == bk.archives[n]
           error == IF a.mf = "missing" THEN Rethrown("ENOENT", TRUE)
                    ELSE IF a.mf = "unreadable" THEN Rethrown("SyntaxError", TRUE)
                    ELSE IF ~a.present THEN Rethrown("ENOENT", FALSE)
                    ELSE IF ~Intact(a) THEN Rethrown("IntegrityMismatchError", FALSE)
                    ELSE Undefined
       IN IF error = Undefined
             THEN bk' = [bk EXCEPT !.restore = [call EXCEPT !.pc = "list"]]
             ELSE bk' = [writeAudit(bk, "restoreBackup", "FAILURE") EXCEPT
                            !.restore = [call EXCEPT !.pc = "failed", !.error = Thrown(bk, error)]]
    /\ DiskUnchanged
    /\ WatchUnchanged
    /\ UNCHANGED <<env, config, options, shuttingDown, polling, phase, session, task, queue,
                   fileLocks, exec, summary, emitted, firstRun, sc, resolved>>

\* fsp.readdir(config.rootDir, { recursive: true }): the names under the root, as
\* strings (withFileTypes is not set).
readdir == filesToProcess

\* tar.x({ file, C: rootDir }): the files of the archive written over the root.
Extracted(a) ==
    [f \in DOMAIN disk |->
        IF f \in DOMAIN a.bytes THEN [content |-> a.bytes[f], mtime |-> clock + 1] ELSE disk[f]]

\* The rest of restoreBackup: allFiles = readdir(...).filter(f => f.isFile()) calls
\* isFile on a string and throws a TypeError for a root that has any entry; the
\* catch block writes a FAILURE entry and rethrows.  For an empty listing:
\* createBackup(allFiles), tar.x, a SUCCESS entry.
RestoreSnapshot ==
    /\ bk.restore.pc = "list"
    /\ LET snapshot == createBackup(bk, <<>>, env.backupOk)
       IN IF readdir # <<>>
             THEN /\ bk' = [writeAudit(bk, "restoreBackup", "FAILURE") EXCEPT
                               !.restore.pc = "failed", !.restore.error = Thrown(bk, "TypeError")]
                  /\ UNCHANGED <<disk, clock>>
          ELSE IF snapshot.thrown # Undefined
             THEN /\ bk' = [writeAudit(snapshot, "restoreBackup", "FAILURE") EXCEPT
                               !.restore.pc = "failed",
                               !.restore.error = Thrown(bk, snapshot.thrown)]
                  /\ UNCHANGED <<disk, clock>>
          ELSE /\ bk' = [writeAudit(snapshot, "restoreBackup", "SUCCESS") EXCEPT
                            !.restore.pc = "done"]
               /\ disk' = Extracted(bk.archives[bk.restore.name])
               /\ clock' = clock + 1
    /\ UNCHANGED <<cacheFile, tempFile, recovery, cache, cacheLock>>
    /\ WatchUnchanged
    /\ UNCHANGED <<env, config, options, shuttingDown, polling, phase, session, task, queue,
                   fileLocks, exec, summary, emitted, firstRun, sc, resolved>>

\* Everything but the project files and the backup directory.
ArchiveUnchanged ==
    /\ UNCHANGED <<cacheFile, tempFile, recovery, cache, cacheLock>>
    /\ WatchUnchanged
    /\ UNCHANGED <<env, config, options, shuttingDown, polling, phase, session, task, queue,
                   fileLocks, exec, summary, emitted, firstRun, sc, resolved>>

\* No formatting run is under way and no backup command has been given yet.
Idle == phase = "done" /\ bk.restore.pc = "none" /\ bk.report.made = "no" /\ ~bk.clean.made

\* The backup phase of a formatting run: createBackup(filesToProcess) succeeds.
BackupRun ==
    /\ Idle
    /\ Len(bk.archives) < MaxArchives
    /\ bk' = createBackup(bk, filesToProcess, TRUE)
    /\ UNCHANGED <<disk, clock>>
    /\ ArchiveUnchanged

\* A project file is rewritten (by a formatting run, by its author).
TreeChanged(f) ==
    /\ Idle
    /\ disk[f].content = "raw"
    /\ disk' = [disk EXCEPT ![f] = [content |-> "fmt", mtime |-> clock + 1]]
    /\ clock' = clock + 1
    /\ UNCHANGED bk
    /\ ArchiveUnchanged

\* What can happen to the files of the backup directory between commands.
DeleteManifest(n) ==
    /\ Idle
    /\ bk.archives[n].mf # "missing"
    /\ bk' = [bk EXCEPT !.archives[n].mf = "missing"]
    /\ UNCHANGED <<disk, clock>>
    /\ ArchiveUnchanged

GarbleManifest(n) ==
    /\ Idle
    /\ bk.archives[n].mf = "ok"
    /\ bk' = [bk EXCEPT !.archives[n].mf = "unreadable"]
    /\ UNCHANGED <<disk, clock>>
    /\ ArchiveUnchanged

DeleteArchive(n) ==
    /\ Idle
    /\ bk.archives[n].present
    /\ bk' = [bk EXCEPT !.archives[n].present = FALSE]
    /\ UNCHANGED <<disk, clock>>
    /\ ArchiveUnchanged

\* A verification that calls every paired archive healthy.
verifyBackupsTrusting(dir) ==
    LET archives == {n \in DOMAIN dir : dir[n].present}
        manifests == {n \in DOMAIN dir : dir[n].mf # "missing"}
    IN [NoReport EXCEPT !.made = "yes", !.dir = dir,
                        !.healthy = manifests \cap archives,
                        !.orphaned_manifests = manifests \ archives,
                        !.orphaned_archives = archives \ manifests]

\* verifyBackups: for every manifest of the directory, if its archive is there the
\* pair is healthy when the manifest parses and the fresh digest equals the
\* recorded one, corrupt otherwise (also when reading the manifest throws), and
\* the archive is taken out of the set; else the manifest is orphaned.  The
\* archives left in the set are orphaned.
verifyBackups(dir) ==
    LET archives == {n \in DOMAIN dir : dir[n].present}
        manifests == {n \in DOMAIN dir : dir[n].mf # "missing"}
        paired == {n \in manifests : n \in archives}
        healthy == {n \in paired : dir[n].mf = "ok" /\ Intact(dir[n])}
    IN [NoReport EXCEPT !.made = "yes", !.dir = dir,
                        !.healthy = healthy,
                        !.corrupt = paired \ healthy,
                        !.orphaned_manifests = manifests \ archives,
                        !.orphaned_archives = archives \ paired]

\* The verify command.  fsp.readdir of a backup directory that was never created
\* rejects, and the command fails without a report.
VerifyBackups ==
    /\ Idle
    /\ bk.report.made = "no"
    /\ IF bk.archives = <<>> /\ bk.audit = <<>>
          THEN bk' = [bk EXCEPT !.report.made = "ENOENT"]
          ELSE bk' = [bk EXCEPT !.report = verifyBackups(bk.archives),
                                !.audit = Append(@, <<"verifyBackups", "SUCCESS">>)]
    /\ UNCHANGED <<disk, clock>>
    /\ ArchiveUnchanged

\* fsp.readdir(config.backupDir) filtered to the archives: the archive files of
\* the directory, in an order that is the file system's.
Listings(dir) ==
    LET archives == {n \in DOMAIN dir : dir[n].present}
    IN {p \in [1..Cardinality(archives) -> archives] :
           \A i, j \in DOMAIN p : i # j => p[i] # p[j]}

\* listBackups, before the sort: for each archive an entry with the createdAt of
\* its manifest, or with a note and no createdAt (0) when the manifest is
\* missing or cannot be parsed.
Entries(dir, listing) ==
    [i \in DOMAIN listing |->
        [name |-> listing[i],
         createdAt |-> IF dir[listing[i]].mf = "ok" THEN listing[i] ELSE 0]]

\* (a, b) => new Date(b.createdAt) - new Date(a.createdAt): NaN when one of the
\* two has no createdAt, which the sort takes for 0.
Compare(a, b) ==
    IF a.createdAt = 0 \/ b.createdAt = 0 THEN 0 ELSE b.createdAt - a.createdAt

\* Array.prototype.sort of the runtime for a short array: the leading run is
\* counted (and reversed when strictly descending), the rest is put in place by
\* binary insertion.
RECURSIVE RunEnd(_, _, _)
RunEnd(w, idx, descending) ==
    IF idx > Len(w) THEN idx - 1
    ELSE LET order == Compare(w[idx], w[idx - 1])
         IN IF (descending /\ order >= 0) \/ (~descending /\ order < 0)
               THEN idx - 1
               ELSE RunEnd(w, idx + 1, descending)

CountAndMakeRun(w) ==
    LET descending == Compare(w[2], w[1]) < 0
        run == RunEnd(w, 3, descending)
    IN [run |-> run,
        w |-> [i \in DOMAIN w |-> IF descending /\ i <= run THEN w[run + 1 - i] ELSE w[i]]]

\* left and right count from 0, as in the runtime.
RECURSIVE Search(_, _, _, _)
Search(w, pivot, left, right) ==
    IF left >= right THEN left
    ELSE LET mid == left + ((right - left) \div 2)
         IN IF Compare(pivot, w[mid + 1]) < 0
               THEN Search(w, pivot, left, mid)
               ELSE Search(w, pivot, mid + 1, right)

RECURSIVE BinaryInsertionSort(_, _)
BinaryInsertionSort(w, start) ==
    IF start >= Len(w) THEN w
    ELSE LET pivot == w[start + 1]
             left == Search(w, pivot, 0, start)
             placed == [i \in DOMAIN w |->
                          IF i <= left THEN w[i]
                          ELSE IF i = left + 1 THEN pivot
                          ELSE IF i <= start + 1 THEN w[i - 1]
                          ELSE w[i]]
         IN BinaryInsertionSort(placed, start + 1)

sort(w) ==
    IF Len(w) < 2 THEN w
    ELSE LET r == CountAndMakeRun(w) IN BinaryInsertionSort(r.w, r.run)

\* A listing whose entries without a manifest carry the modification time of
\* the archive file.
listBackupsByTime(dir, listing) ==
    sort([i \in DOMAIN listing |-> [name |-> listing[i], createdAt |-> listing[i]]])

\* listBackups(): the entries, most recent createdAt first.
listBackups(dir, listing) == sort(Entries(dir, listing))

\* cleanBackups(limit): toDelete = allBackups.slice(limit); the archive and the
\* manifest of each are unlinked, a failing unlink is ignored; one SUCCESS entry
\* in the audit log unless there was nothing to delete.  The entry is written
\* inside the try block: when writeAudit throws, the catch block calls it again
\* for the FAILURE entry (the error code is not ENOENT) and that throw leaves
\* cleanBackups.
CleanBackups(limit) ==
    /\ Idle
    /\ \E listing \in Listings(bk.archives) :
          LET allBackups == listBackups(bk.archives, listing)
              toDelete == {allBackups[i].name : i \in (limit + 1)..Len(allBackups)}
          IN bk' = [bk EXCEPT
                      !.clean = [made |-> TRUE, limit |-> limit, dir |-> bk.archives,
                                 error |-> IF toDelete = {} THEN Undefined
                                           ELSE Thrown(bk, Undefined)],
                      !.archives = [n \in DOMAIN bk.archives |->
                                      IF n \in toDelete
                                         THEN [bk.archives[n] EXCEPT !.present = FALSE,
                                                                     !.mf = "missing"]
                                         ELSE bk.archives[n]],
                      !.audit = IF toDelete = {} THEN @
                                ELSE writeAudit(bk, "cleanBackups", "SUCCESS").audit]
    /\ UNCHANGED <<disk, clock>>
    /\ ArchiveUnchanged

\* ------------------------------------------------- ignore rules, the scanner
\* The tree of the scanner's project: the entries of each directory, in the
\* order of readdir.  A path is the sequence of its segments, relative to the root.
Children(dir) ==
    CASE dir = <<>> -> << <<"a.js">>, <<"build">>, <<"lib">>, <<"notes.md">> >>
      [] dir = <<"build">> -> << <<"build", "c.js">>, <<"build", "gen">> >>
      [] dir = <<"build", "gen">> -> << <<"build", "gen", "d.ts">> >>
      [] dir = <<"lib">> -> << <<"lib", "b.js">> >>
      [] OTHER -> <<>>

Directories == { <<"build">>, <<"build", "gen">>, <<"lib">> }
ScanFiles == { <<"a.js">>, <<"notes.md">>, <<"build", "c.js">>, <<"build", "gen", "d.ts">>,
               <<"lib", "b.js">> }

\* entry.isDirectory()
isDirectory(p) == p \in Directories

\* path.extname(entry.name)
extnameOf(name) ==
    CASE name \in {"a.js", "b.js", "c.js"} -> ".js"
      [] name = "d.ts" -> ".ts"
      [] name = "notes.md" -> ".md"
      [] OTHER -> ""

\* config.targetExtensions
targetExtensions == {".js", ".json", ".mjs", ".cjs", ".ts", ".jsx", ".tsx"}

\* One rule against one pathname, as the ignore package matches them.  The
\* package does no stat: a pathname is that of a directory only when it is given
\* with a trailing slash (asDir).
\*   lib, gen   a name: the file or directory of that name, at any depth
\*   build/     a directory of that name; does not match the pathname of a file
\*   build/**   everything below the directory build of the root
\*   *.js       every name with that extension
Matches(rule, p, asDir) ==
    CASE rule \in {"lib", "gen"} -> p[Len(p)] = rule
      [] rule = "build/" -> p[Len(p)] = "build" /\ asDir
      [] rule = "build/**" -> Len(p) > 1 /\ p[1] = "build"
      [] rule = "*.js" -> extnameOf(p[Len(p)]) = ".js"
      [] OTHER -> FALSE

\* ignore().add(rules).ignores(pathname): a pathname is ignored when a rule
\* matches it or matches one of its parent directories.
ignores(rules, p, asDir) ==
    \E k \in 1..Len(p) : \E i \in DOMAIN rules :
        Matches(rules[i], SubSeq(p, 1, k), IF k < Len(p) THEN TRUE ELSE asDir)

\* state.ignorer of initialize: the rules of the configuration, then those of
\* the .gitignore file if it can be read.
ignorer == sc.ignorePatterns \o (IF sc.gitignore.present THEN sc.gitignore.rules ELSE <<>>)

\* The first rule of the list that ignores p on its own, or none.
FirstMatch(rules, p) ==
    IF \E i \in DOMAIN rules : ignores(<<rules[i]>>, p, FALSE)
       THEN rules[CHOOSE i \in DOMAIN rules :
                    /\ ignores(<<rules[i]>>, p, FALSE)
                    /\ \A j \in 1..(i - 1) : ~ignores(<<rules[j]>>, p, FALSE)]
       ELSE Undefined

\* A lookup that reads the .gitignore file first.
analyzeIgnoreFileFirst(ignorePatterns, gitignore, p) ==
    IF gitignore.present /\ FirstMatch(gitignore.rules, p) # Undefined
       THEN [file |-> p, rule |-> FirstMatch(gitignore.rules, p), source |-> ".gitignore"]
    ELSE IF FirstMatch(ignorePatterns, p) # Undefined
       THEN [file |-> p, rule |-> FirstMatch(ignorePatterns, p), source |-> "razzaq.config.js"]
    ELSE [file |-> p, rule |-> "null", source |-> "null"]

\* analyzeIgnore(cfg, filePath): the first rule of cfg.ignorePatterns that ignores
\* the path, else the first rule of .gitignore that does (a file that cannot be
\* read is skipped), else null.
analyzeIgnore(ignorePatterns, gitignore, p) ==
    IF FirstMatch(ignorePatterns, p) # Undefined
       THEN [file |-> p, rule |-> FirstMatch(ignorePatterns, p), source |-> "razzaq.config.js"]
    ELSE IF gitignore.present /\ FirstMatch(gitignore.rules, p) # Undefined
       THEN [file |-> p, rule |-> FirstMatch(gitignore.rules, p), source |-> ".gitignore"]
    ELSE [file |-> p, rule |-> "null", source |-> "null"]

ScanUnchanged ==
    /\ UNCHANGED <<disk, clock, cacheFile, tempFile, recovery, cache, cacheLock>>
    /\ WatchUnchanged
    /\ UNCHANGED <<env, config, options, shuttingDown, polling, phase, session, task, queue,
                   fileLocks, exec, summary, emitted, firstRun, bk, resolved>>

\* The why command: analyzeWhy(filePath).
AnalyzeWhy(p) ==
    /\ sc.why = NoWhy
    /\ sc' = [sc EXCEPT !.why = analyzeIgnore(sc.ignorePatterns, sc.gitignore, p)]
    /\ ScanUnchanged

\* scanFilesGenerator(rootDir) is called: readdir of the root.
ScanStart ==
    /\ sc.pc = "idle"
    /\ sc' = [sc EXCEPT !.pc = "scanning", !.stack = << [dir |-> <<>>, next |-> 1] >>,
                        !.read = {<<>>}]
    /\ ScanUnchanged

\* One turn of the loop over the entries of the directory the generator is in:
\* an ignored entry is skipped, a directory is read and entered, a file with a
\* target extension is yielded; after the last entry the generator returns to
\* the directory above.
ScanEntry ==
    /\ sc.pc = "scanning"
    /\ LET top == sc.stack[Len(sc.stack)]
           entries == Children(top.dir)
           rest == SubSeq(sc.stack, 1, Len(sc.stack) - 1)
       IN IF top.next > Len(entries)
             THEN sc' = [sc EXCEPT !.stack = rest,
                                   !.pc = IF rest = <<>> THEN "done" ELSE "scanning"]
             ELSE LET fullPath == entries[top.next]
                      on == Append(rest, [top EXCEPT !.next = @ + 1])
                  IN IF ignores(ignorer, fullPath, FALSE)
                        THEN sc' = [sc EXCEPT !.stack = on, !.ignored = @ \cup {fullPath}]
                     ELSE IF isDirectory(fullPath)
                        THEN sc' = [sc EXCEPT !.stack = Append(on, [dir |-> fullPath, next |-> 1]),
                                              !.read = @ \cup {fullPath}]
                     ELSE IF extnameOf(fullPath[Len(fullPath)]) \in targetExtensions
                        THEN sc' = [sc EXCEPT !.stack = on, !.yielded = Append(@, fullPath)]
                     ELSE sc' = [sc EXCEPT !.stack = on]
    /\ ScanUnchanged

\* What happens between two invocations: the configuration file is edited, or
\* the first file is touched, or nothing.
Changes == {<<u, "none">> : u \in UserConfigs} \cup {<<BaseConfig, FileList[1]>>}

\* The tool is invoked again once the first process has ended.  Between the two
\* invocations the configuration may be edited and the first file may be touched
\* (modification time changed, content kept); writes are no longer intercepted.
NewSession ==
    /\ session = "first"
    /\ phase = "done"
    /\ ~polling
    /\ Quiescent
    /\ session' = "second"
    /\ phase' = "initializing"
    /\ \E ch \in Changes :
        LET tf == ch[2] IN
          /\ config' = loadConfig(ch[1])
          /\ firstRun' = [classes |-> [f \in Files |-> Classes(f)], touched |-> tf,
                          config |-> config]
          /\ IF tf = "none"
                THEN UNCHANGED <<disk, clock>>
                ELSE /\ disk' = [disk EXCEPT ![tf].mtime = clock + 1]
                     /\ clock' = clock + 1
    /\ cache' = UnsetCache
    /\ cacheLock' = FALSE
    /\ shuttingDown' = FALSE
    /\ task' = [t \in TaskIds |-> NoTask]
    /\ queue' = <<>>
    /\ fileLocks' = [f \in Files |-> 0]
    /\ exec' = [e \in ExecIds |-> NoExec]
    /\ summary' = NoSummary
    /\ emitted' = [n \in SessionEvents |-> 0]
    /\ env' = [env EXCEPT !.intercept = "none"]
    /\ resolved' = {}
    /\ UNCHANGED <<cacheFile, tempFile, recovery, options, polling, bk, sc>>
    /\ WatchUnchanged

\* ------------------------------------------------------------ specification
NoFirstRun == [classes |-> [f \in Files |-> {}], touched |-> "none", config |-> loadConfig(BaseConfig)]

\* options.backup false (the backup phase is skipped); createBackup unused.
NoBackup == {<<FALSE, TRUE>>}

\* options.concurrency: sequential, and two files at a time.
Concurrencies == {1, 2}

Tree(n) == {FileList[i] : i \in 1..n}

\* The state after construction, for a root whose files hold contents of the set
\* `contents`, with the options and the environment drawn from the given sets.
Start(counts, contents, dryRuns, watches, concurrencies, intercepts, recoveryOks, slows, extensions, backups) ==
    /\ disk \in UNION {[Tree(n) -> {[content |-> c, mtime |-> 0] : c \in contents}] : n \in counts}
    /\ clock = 0
    /\ cacheFile = NoFile
    /\ tempFile = NoFile
    /\ recovery = {}
    /\ env \in [intercept : intercepts, recoveryOk : recoveryOks, slow : slows,
                 listeners : extensions, backupOk : {b[2] : b \in backups},
                 saveFail : {FALSE}]
    /\ config = loadConfig(BaseConfig)
    /\ options \in [dryRun : dryRuns, watch : watches, concurrency : concurrencies, retry : {Retry},
                     backup : {b[1] : b \in backups}]
    /\ <<options.backup, env.backupOk>> \in backups
    /\ cache = UnsetCache
    /\ cacheLock = FALSE
    /\ shuttingDown = FALSE
    /\ polling = FALSE
    /\ phase = "initializing"
    /\ session = "first"
    /\ task = [t \in TaskIds |-> NoTask]
    /\ queue = <<>>
    /\ fileLocks = [f \in Files |-> 0]
    /\ exec = [e \in ExecIds |-> NoExec]
    /\ watcher = FALSE
    /\ changeBuffer = {}
    /\ debounceTimer = FALSE
    /\ summary = NoSummary
    /\ emitted = [n \in SessionEvents |-> 0]
    /\ firstRun = NoFirstRun
    /\ bk = NoBackups
    /\ resolved = {}

Pipeline ==
    \/ \E e \in ExecIds : ExecStat(e)
    \/ \E e \in ExecIds : ExecRead(e)
    \/ \E e \in ExecIds : ExecValidate(e)
    \/ \E e \in ExecIds : ExecFormat(e)
    \/ \E e \in ExecIds : ExecWrite(e)
    \/ \E e \in ExecIds : ExecReadback(e)
    \/ \E e \in ExecIds : ExecRestat(e)
    \/ \E e \in ExecIds : ExecRecover(e)
    \/ \E e \in ExecIds : ExecSaveCache(e)
    \/ \E e \in ExecIds : ExecSaveWrite(e)
    \/ \E e \in ExecIds : ExecSaveRename(e)

\* One one-shot session: every content, dry and real runs, every concurrency, an
\* intercepted write, a recovery directory that cannot be written.
Init ==
    /\ Start({NumFiles}, Contents, BOOLEAN, {FALSE}, Concurrencies, {"none", FileList[1]}, BOOLEAN, {{}}, {<<>>}, NoBackup)
    /\ sc = NoScan

Next ==
    \/ Initialize
    \/ RunOnce
    \/ StartTask
    \/ Pipeline
    \/ RunComplete

Spec == Init /\ [][Next]_vars

\* The tool invoked twice in succession.
InitTwice ==
    /\ Start({NumFiles}, Contents \ {"big"}, BOOLEAN, {FALSE}, Concurrencies, {"none", FileList[1]}, {TRUE}, {{}}, {<<>>}, NoBackup)
    /\ sc = NoScan

NextTwice ==
    \/ Next
    \/ NewSession

SpecTwice == InitTwice /\ [][NextTwice]_vars

\* A watch session with slow files, timeouts, retries and a shutdown request.
InitWatch ==
    /\ Start({1}, {"raw", "trap"}, {FALSE}, {TRUE}, Concurrencies, {"none"}, {TRUE}, SUBSET {2}, {<<>>}, NoBackup)
    /\ sc = NoScan

NextWatch ==
    \/ Next
    \/ \E t \in TaskIds : Timeout(t)
    \/ \E t \in TaskIds : RetryAttempt(t)
    \/ \E f \in DOMAIN disk : FileChanged(f)
    \/ DebounceFire
    \/ GracefulShutdown
    \/ ShutdownPoll

SpecWatch == InitWatch /\ [][NextWatch]_vars

\* A watch session over the whole tree: changes of several paths, batched or
\* not, and a shutdown request.
InitDebounce ==
    /\ Start({2}, {"raw", "trap"}, {FALSE}, {TRUE}, {2}, {"none"}, {TRUE}, {{}}, {<<>>}, NoBackup)
    /\ sc = NoScan

NextDebounce ==
    \/ Next
    \/ \E f \in DOMAIN disk : FileChanged(f)
    \/ DebounceFire
    \/ GracefulShutdown
    \/ ShutdownPoll

SpecDebounce == InitDebounce /\ [][NextDebounce]_vars

\* A session of either mode in which gracefulShutdown is called from outside at
\* any moment, and called again while the flag is set.
InitShutdown ==
    /\ Start({1}, {"raw", "trap"}, {FALSE}, BOOLEAN, Concurrencies, {"none"}, {TRUE}, SUBSET {2}, {<<>>}, NoBackup)
    /\ sc = NoScan

NextShutdown ==
    \/ NextWatch
    \/ GracefulShutdownAgain

SpecShutdown == InitShutdown /\ [][NextShutdown]_vars

\* The extension sets of a session: a rewriting listener followed by a reading one,
\* the license header plugin, a strict linter, and listeners that throw on
\* file:processed and on file:error.
Extensions ==
    { <<"stamp", "observe">>, <<"header">>, <<"lint">>, <<"failProcessed">>,
      <<"failProcessed", "failError">> }

\* The same session, with or without a listener that throws on file:error, under
\* fair scheduling: a step of a processFiles call that can be taken is taken
\* (I/O completions), the limiter starts a pending task when it has room, the
\* timers of the attempt timeout, the backoff and the polling loop fire, and the
\* continuation of _runOnce runs.  Change notifications and shutdown requests
\* come from outside and are under no obligation.
InitLive ==
    /\ Start({1}, {"raw", "trap"}, {FALSE}, BOOLEAN, Concurrencies, {"none"}, {TRUE}, SUBSET {2},
             {<<>>, <<"failError">>}, NoBackup)
    /\ sc = NoScan

Fairness ==
    /\ WF_vars(Pipeline)
    /\ WF_vars(StartTask)
    /\ WF_vars(RunComplete)
    /\ WF_vars(ShutdownPoll)
    /\ \A t \in TaskIds : WF_vars(Timeout(t))
    /\ \A t \in TaskIds : WF_vars(RetryAttempt(t))

SpecLive == InitLive /\ [][NextShutdown]_vars /\ Fairness

\* Listeners that throw on one event of the per-file pipeline each.
Throwers == { <<>>, <<"failValidate">>, <<"failHit">>, <<"lint">>, <<"failProcessed">> }

\* The tool invoked twice in succession with a throwing listener registered.
InitListeners ==
    /\ Start({NumFiles}, {"raw", "fmt", "big"}, {FALSE}, {FALSE}, {1}, {"none"}, {TRUE}, {{}},
             Throwers, NoBackup)
    /\ sc = NoScan

NextListeners ==
    \/ NextTwice
    \/ \E e \in ExecIds : ExecThrow(e)
    \/ \E t \in TaskIds : RetryAttempt(t)

SpecListeners == InitListeners /\ [][NextListeners]_vars

\* One one-shot session with extensions loaded.
InitPlugins ==
    /\ Start({NumFiles}, {"raw", "fmt"}, {FALSE}, {FALSE}, Concurrencies, {"none"}, {TRUE}, {{}},
             Extensions, NoBackup)
    /\ sc = NoScan

NextPlugins ==
    \/ Next
    \/ \E e \in ExecIds : ExecThrow(e)
    \/ \E t \in TaskIds : RetryAttempt(t)

SpecPlugins == InitPlugins /\ [][NextPlugins]_vars

\* One one-shot session with backup enabled, a createBackup that succeeds or
\* fails, and afterwards the restore command on an archive of the backup directory.
InitBackup ==
    /\ Start({NumFiles}, {"raw", "fmt", "trap"}, BOOLEAN, {FALSE}, Concurrencies, {"none"}, {TRUE}, {{}},
             {<<>>}, {<<TRUE, TRUE>>, <<TRUE, FALSE>>})
    /\ sc = NoScan

NextBackup ==
    \/ Next
    \/ CreateBackup
    \/ StartProcessing
    \/ \E n \in DOMAIN bk.archives : DamageArchive(n)
    \/ \E n \in DOMAIN bk.archives : RestoreBackup(n)
    \/ RestoreSnapshot

SpecBackup == InitBackup /\ [][NextBackup]_vars

\* A project between formatting runs, and its backup directory: backups are
\* made, project files change, files of the backup directory are lost or
\* damaged, and the backup commands are used.
InitArchive ==
    /\ disk = [f \in Tree(NumFiles) |-> [content |-> "raw", mtime |-> 0]]
    /\ clock = 0
    /\ cacheFile = NoFile
    /\ tempFile = NoFile
    /\ recovery = {}
    /\ env = [intercept |-> "none", recoveryOk |-> TRUE, slow |-> {}, listeners |-> <<>>,
              backupOk |-> TRUE, saveFail |-> FALSE]
    /\ config = loadConfig(BaseConfig)
    /\ options = [dryRun |-> FALSE, watch |-> FALSE, concurrency |-> 1, retry |-> Retry,
                  backup |-> TRUE]
    /\ cache = UnsetCache
    /\ cacheLock = FALSE
    /\ shuttingDown = FALSE
    /\ polling = FALSE
    /\ phase = "done"
    /\ session = "first"
    /\ task = [t \in TaskIds |-> NoTask]
    /\ queue = <<>>
    /\ fileLocks = [f \in Files |-> 0]
    /\ exec = [e \in ExecIds |-> NoExec]
    /\ watcher = FALSE
    /\ changeBuffer = {}
    /\ debounceTimer = FALSE
    /\ summary = NoSummary
    /\ emitted = [n \in SessionEvents |-> 0]
    /\ firstRun = NoFirstRun
    /\ bk = NoBackups
    /\ sc = NoScan
    /\ resolved = {}

NextArchive ==
    \/ BackupRun
    \/ TreeChanged(FileList[1])
    \/ \E n \in DOMAIN bk.archives : DeleteManifest(n)
    \/ \E n \in DOMAIN bk.archives : GarbleManifest(n)
    \/ \E n \in DOMAIN bk.archives : DeleteArchive(n)
    \/ \E n \in DOMAIN bk.archives : DamageArchive(n)
    \/ \E n \in DOMAIN bk.archives : RestoreBackup(n)
    \/ RestoreSnapshot
    \/ VerifyBackups
    \/ \E limit \in 1..MaxArchives : CleanBackups(limit)

SpecArchive == InitArchive /\ [][NextArchive]_vars

\* What may lie at the path of the cache file when the tool starts: nothing, text
\* that is no JSON, a cache of another schema version, and caches of the current
\* version and configuration whose `files` is an entries map, is missing, or is
\* a number.
CacheFiles ==
    LET current == FreshCache(loadConfig(BaseConfig))
        entry == [hash |-> safeHash("fmt"), mtime |-> 0]
    IN {NoFile,
        [kind |-> "garbage", data |-> UnsetCache],
        [kind |-> "json", data |-> [current EXCEPT !.version = "older"]],
        [kind |-> "json", data |-> [current EXCEPT !.files = [f \in {FileList[1]} |-> entry]]],
        [kind |-> "json", data |-> [current EXCEPT !.filesIs = "undefined"]],
        [kind |-> "json", data |-> [current EXCEPT !.filesIs = "number"]]}

\* One one-shot session over whatever lies at the path of the cache file, in a
\* directory that takes every write or may refuse some.
InitCache ==
    /\ disk \in [Tree(NumFiles) -> {[content |-> c, mtime |-> 0] : c \in {"raw", "fmt"}}]
    /\ clock = 0
    /\ cacheFile \in CacheFiles
    /\ tempFile = NoFile
    /\ recovery = {}
    /\ env \in [intercept : {"none"}, recoveryOk : {TRUE}, slow : {{}}, listeners : {<<>>},
                 backupOk : {TRUE}, saveFail : BOOLEAN]
    /\ config = loadConfig(BaseConfig)
    /\ options \in [dryRun : {FALSE}, watch : {FALSE}, concurrency : Concurrencies, retry : {Retry},
                     backup : {FALSE}]
    /\ cache = UnsetCache
    /\ cacheLock = FALSE
    /\ shuttingDown = FALSE
    /\ polling = FALSE
    /\ phase = "initializing"
    /\ session = "first"
    /\ task = [t \in TaskIds |-> NoTask]
    /\ queue = <<>>
    /\ fileLocks = [f \in Files |-> 0]
    /\ exec = [e \in ExecIds |-> NoExec]
    /\ watcher = FALSE
    /\ changeBuffer = {}
    /\ debounceTimer = FALSE
    /\ summary = NoSummary
    /\ emitted = [n \in SessionEvents |-> 0]
    /\ firstRun = NoFirstRun
    /\ bk = NoBackups
    /\ sc = NoScan
    /\ resolved = {}

NextCache ==
    \/ Next
    \/ \E e \in ExecIds : ExecSaveUnlink(e)
    \/ Killed

SpecCache == InitCache /\ [][NextCache]_vars

\* One one-shot session over one file, for every retry count up to MaxRetry: a
\* file that is formatted in time, or one the formatter fails on, in time or
\* after the per-file timeout of any attempt.
InitRetry ==
    /\ disk \in [Tree(1) -> {[content |-> c, mtime |-> 0] : c \in {"raw", "trap"}}]
    /\ clock = 0
    /\ cacheFile = NoFile
    /\ tempFile = NoFile
    /\ recovery = {}
    /\ env \in [intercept : {"none"}, recoveryOk : {TRUE}, slow : SUBSET {1}, listeners : {<<>>},
                 backupOk : {TRUE}, saveFail : {FALSE}]
    /\ env.slow # {} => \A f \in DOMAIN disk : disk[f].content = "trap"
    /\ config = loadConfig(BaseConfig)
    /\ options \in [dryRun : {FALSE}, watch : {FALSE}, concurrency : {1}, retry : 0..MaxRetry,
                     backup : {FALSE}]
    /\ cache = UnsetCache
    /\ cacheLock = FALSE
    /\ shuttingDown = FALSE
    /\ polling = FALSE
    /\ phase = "initializing"
    /\ session = "first"
    /\ task = [t \in TaskIds |-> NoTask]
    /\ queue = <<>>
    /\ fileLocks = [f \in Files |-> 0]
    /\ exec = [e \in ExecIds |-> NoExec]
    /\ watcher = FALSE
    /\ changeBuffer = {}
    /\ debounceTimer = FALSE
    /\ summary = NoSummary
    /\ emitted = [n \in SessionEvents |-> 0]
    /\ firstRun = NoFirstRun
    /\ bk = NoBackups
    /\ sc = NoScan
    /\ resolved = {}

NextRetry ==
    \/ Next
    \/ \E t \in TaskIds : Timeout(t)
    \/ \E t \in TaskIds : RetryAttempt(t)

SpecRetry == InitRetry /\ [][NextRetry]_vars

\* One one-shot session with backup enabled over an empty or a populated root,
\* and afterwards the backup commands, with an audit log that takes every entry
\* or refuses every entry.
InitAudit ==
    /\ disk \in UNION {[Tree(n) -> {[content |-> c, mtime |-> 0] : c \in {"raw", "trap"}}] : n \in {0, 1}}
    /\ clock = 0
    /\ cacheFile = NoFile
    /\ tempFile = NoFile
    /\ recovery = {}
    /\ env \in [intercept : {"none"}, recoveryOk : {TRUE}, slow : {{}}, listeners : {<<>>},
                 backupOk : BOOLEAN, saveFail : {FALSE}]
    /\ config = loadConfig(BaseConfig)
    /\ options = [dryRun |-> FALSE, watch |-> FALSE, concurrency |-> 1, retry |-> Retry,
                  backup |-> TRUE]
    /\ cache = UnsetCache
    /\ cacheLock = FALSE
    /\ shuttingDown = FALSE
    /\ polling = FALSE
    /\ phase = "initializing"
    /\ session = "first"
    /\ task = [t \in TaskIds |-> NoTask]
    /\ queue = <<>>
    /\ fileLocks = [f \in Files |-> 0]
    /\ exec = [e \in ExecIds |-> NoExec]
    /\ watcher = FALSE
    /\ changeBuffer = {}
    /\ debounceTimer = FALSE
    /\ summary = NoSummary
    /\ emitted = [n \in SessionEvents |-> 0]
    /\ firstRun = NoFirstRun
    /\ bk \in {[NoBackups EXCEPT !.auditOk = ok] : ok \in BOOLEAN}
    /\ sc = NoScan
    /\ resolved = {}

NextAudit ==
    \/ NextBackup
    \/ BackupRun
    \/ \E limit \in 1..MaxArchives : CleanBackups(limit)

SpecAudit == InitAudit /\ [][NextAudit]_vars

\* The rule lists of the scanner's specification.
RuleLists(rules) == {<<>>} \cup {<<r>> : r \in rules} \cup {<<r, q>> : r, q \in rules}

\* A project with ignore rules in its configuration and with or without a
\* .gitignore file: one scan of the tree, and the why command.
InitScan ==
    /\ Start({NumFiles}, {"raw"}, {TRUE}, {FALSE}, {1}, {"none"}, {TRUE}, {{}}, {<<>>}, NoBackup)
    /\ \E cfg \in RuleLists({"lib", "build/**", "*.js"}) :
       \E git \in {[present |-> FALSE, rules |-> <<>>]}
                    \cup {[present |-> TRUE, rules |-> g] : g \in RuleLists({"lib", "build/", "gen"})} :
          sc = [NoScan EXCEPT !.ignorePatterns = cfg, !.gitignore = git]

NextScan ==
    \/ ScanStart
    \/ ScanEntry
    \/ \E p \in ScanFiles \cup Directories : AnalyzeWhy(p)

SpecScan == InitScan /\ [][NextScan]_vars

\* ------------------------------------------------------------------ claims
Has(x, name) == \E i \in DOMAIN x.events : x.events[i] = name
Recorded(x, err) == \E i \in DOMAIN x.errors : x.errors[i] = err
Done(e) == exec[e].pc = "done"
Began(e) == exec[e].pc # "none"

\* The processing of the i-th scanned file ended in an error: its promise was
\* rejected (timeout, shutdown) or its result carries an error.
EndedInError(i) == task[i].st = "rejected" \/ task[i].result.errors # <<>>

\* C1: the Run Summary emitted with run:complete has total = succeeded + failed,
\* and failed counts exactly the files whose processing ended in a validation
\* error, a transform error, an integrity error, a timeout or a shutdown abort.
RunSummaryCountsFailures ==
    summary # NoSummary =>
        /\ summary.total = summary.fulfilled + summary.rejected
        /\ summary.rejected = Cardinality({i \in Scanned : EndedInError(i)})
        /\ summary.fulfilled = Cardinality({i \in Scanned : ~EndedInError(i)})

\* The processFiles calls made for task t or for one of the calls in `during`.
Executions(ts) == {e \in ExecIds : e[1] \in ts /\ Began(e)}
SameOutcome(t, o) ==
    /\ task[t].st = task[o].st
    /\ task[t].error = task[o].error
    /\ task[t].result = task[o].result

\* C2 as stated: when a call for a path is made before an earlier call for the
\* same path has settled, the pipeline runs exactly once for the two of them and
\* both settle with the same outcome.
SecondCallSharesOneExecution ==
    \A t \in TaskIds : \A o \in task[t].during :
        (Settlement(t) /\ Settlement(o)) =>
            /\ Cardinality(Executions({t, o})) = 1
            /\ SameOutcome(t, o)

\* C2 amended: a call for a path made before an earlier call for the same path has
\* settled starts no pipeline execution of its own, settles when the earlier call
\* settles and with the same outcome; the earlier call runs the pipeline once per
\* attempt.
SecondCallStartsNoExecution ==
    \A t \in TaskIds : \A o \in task[t].during :
        /\ Executions({t}) = {}
        /\ task[t].attempt = 0
        /\ Settlement(t) <=> Settlement(o)
        /\ Settlement(o) => SameOutcome(t, o)
        /\ Cardinality(Executions({o})) = task[o].attempt

SecondCallSettledWithFirst ==
    \E t \in TaskIds : \E o \in task[t].during :
        /\ task[t].st = "fulfilled"
        /\ task[o].st = "fulfilled"
        /\ Done(<<o, task[o].attempt>>)

\* C3: a file is classified skipped only when a cache entry exists for its path
\* whose fingerprint equals the file's fingerprint and whose modification time
\* equals the file's modification time; a fingerprint match with another
\* modification time is a miss, and the file goes on to the transform.
SkippedOnlyOnHashAndMtime ==
    \A e \in ExecIds :
        LET x == exec[e]
            checked == Has(x, "file:validated") \/ Has(x, "file:validate:skip")
        IN /\ (x.stats.skipped = 1 \/ Has(x, "file:cache:hit")) =>
                /\ x.cacheEntry # <<>>
                /\ x.cacheEntry[1].hash = x.hash
                /\ x.cacheEntry[1].mtime = x.fileStat.mtime
                /\ ~Has(x, "format:before")
           /\ (checked /\ x.cacheEntry # <<>> /\ x.cacheEntry[1].hash = x.hash
                       /\ x.cacheEntry[1].mtime # x.fileStat.mtime) =>
                /\ x.stats.skipped = 0
                /\ Has(x, "file:cache:miss")
                /\ ~options.dryRun => Has(x, "format:before")

TouchedFileMissesCache ==
    \E e \in ExecIds :
        /\ exec[e].cacheEntry # <<>>
        /\ exec[e].cacheEntry[1].hash = exec[e].hash
        /\ exec[e].cacheEntry[1].mtime # exec[e].fileStat.mtime
        /\ Has(exec[e], "format:before")
        /\ \E d \in ExecIds : exec[d].stats.skipped = 1

\* The entries of the cache that a step changes.
Rewritten == {f \in DOMAIN cache'.files : f \notin DOMAIN cache.files \/ cache'.files[f] # cache.files[f]}
Loading == phase = "initializing" \/ session' # session
Writes(e) == Rewritten = {F(e)} /\ DOMAIN cache.files \subseteq DOMAIN cache'.files
VerifiedWrite(e) ==
    /\ exec[e].pc = "restat"
    /\ Has(exec[e], "file:verify:success")
    /\ safeHash(disk[F(e)].content) = safeHash(exec[e].formatted)
    /\ cache'.files[F(e)].hash = safeHash(exec[e].formatted)
NoOp(e) ==
    /\ exec[e].pc = "format"
    /\ ~FormatThrows(exec[e].originalContent)
    /\ Format(exec[e].originalContent) = exec[e].originalContent
LeavesEntries(e) ==
    \/ Len(exec'[e].errors) > Len(exec[e].errors)
    \/ exec'[e].stats.skipped > exec[e].stats.skipped
    \/ (options.dryRun /\ exec'[e] # exec[e])

\* C4: an entry of the in-memory cache is written only after the formatted content
\* was written and its readback fingerprint matched, or when the formatter output
\* equals the original content; validation failures, cache hits, dry runs, thrown
\* errors and integrity mismatches leave every entry as it was.
CacheEntryWrittenOnlyWhenVerifiedOrNoOp ==
    [][ ~Loading =>
          /\ cache'.files # cache.files =>
                \E e \in ExecIds : Writes(e) /\ (VerifiedWrite(e) \/ NoOp(e))
          /\ \A e \in ExecIds : LeavesEntries(e) => cache'.files = cache.files ]_vars

CacheHoldsVerifiedEntryOnly ==
    /\ session = "second"
    /\ \E e \in ExecIds : Done(e) /\ exec[e].stats.skipped = 1
    /\ \E e \in ExecIds : Done(e) /\ Recorded(exec[e], "Formatter error")
    /\ \E f \in DOMAIN cache.files : cache.files[f].mtime > 0

\* C5: if the version or the configuration fingerprint stored in the cache file
\* differs from the session's, then after load the entries map is empty and the
\* version and the configuration fingerprint in memory are the session's.
StaleCacheFileIsDiscarded ==
    [][ (phase = "initializing" /\ phase' = "ready" /\ cacheFile.kind = "json"
           /\ (cacheFile.data.version # config.cacheVersion
                 \/ cacheFile.data.configHash # getConfigHash(config))) =>
          /\ DOMAIN cache'.files = {}
          /\ cache'.version = config.cacheVersion
          /\ cache'.configHash = getConfigHash(config) ]_vars

StaleEntriesWereDropped ==
    /\ session = "second"
    /\ phase = "ready"
    /\ cacheFile.kind = "json"
    /\ DOMAIN cacheFile.data.files # {}
    /\ cacheFile.data.version = config.cacheVersion
    /\ cacheFile.data.configHash # getConfigHash(config)
    /\ DOMAIN cache.files = {}


\* The per-file task of execution e is over.
Over(e) == exec[e].pc \in {"tail", "saveWrite", "saveRename", "done"}
\* Execution e wrote the file and the disk holds other content than it meant to write.
IntegrityMismatch(e) ==
    /\ Has(exec[e], "file:verify:start")
    /\ exec[e].pc # "readback"
    /\ disk[F(e)].content # exec[e].formatted
\* The cache holds for the file of e what it held when e looked its entry up.
EntryKept(e) ==
    IF exec[e].cacheEntry = <<>>
       THEN F(e) \notin DOMAIN cache.files
       ELSE F(e) \in DOMAIN cache.files /\ cache.files[F(e)] = exec[e].cacheEntry[1]
RecoveryCopy(e) == <<F(e), exec[e].originalContent>> \in recovery
EndsFailed(e) ==
    /\ exec[e].pc # "restat"
    /\ ~Has(exec[e], "file:verify:success")
    /\ Recorded(exec[e], "Integrity check failed")
    /\ exec[e].stats.invalid = 1
    /\ exec[e].stats.formatted = 0
    /\ EntryKept(e)

\* C6 as stated: if the content read back after a write has another fingerprint
\* than the content meant to be written, the attempt ends as failed with the
\* integrity-check error, the cache entry is not updated, and a recovery copy of
\* the original content has been produced.
IntegrityMismatchFailsAndRecovers ==
    \A e \in ExecIds :
        IntegrityMismatch(e) => (EndsFailed(e) /\ (Over(e) => RecoveryCopy(e)))

\* C6 amended: on a readback mismatch the attempt ends as failed with the
\* integrity-check error and the cache entry is not updated; the recovery copy of
\* the original content has been produced exactly when the recovery file could be
\* written (a failure to write it is logged and swallowed).
IntegrityMismatchFailsAndTriesRecovery ==
    \A e \in ExecIds :
        IntegrityMismatch(e) =>
            /\ EndsFailed(e)
            /\ Over(e) => (RecoveryCopy(e) <=> env.recoveryOk)
            /\ Over(e) => (Has(exec[e], "file:recovery:saved") <=> env.recoveryOk)

IntegrityMismatchRecovered ==
    \E e \in ExecIds :
        /\ Done(e)
        /\ IntegrityMismatch(e)
        /\ Recorded(exec[e], "Integrity check failed")
        /\ RecoveryCopy(e)

\* C7: on any per-file failure after the original content was read (a validation
\* failure, a formatter error, an integrity mismatch), the original content is in
\* the recovery location before the failure is recorded.
RecoveryCopyBeforeFailureRecorded ==
    \A e \in ExecIds :
        (env.recoveryOk /\ exec[e].originalContent # Undefined /\ exec[e].errors # <<>>) =>
            RecoveryCopy(e)

\* The second of two runs in succession is over; nothing changed in between.
SecondRunOver ==
    /\ session = "second"
    /\ phase = "done"
    /\ ~options.dryRun
    /\ firstRun.touched = "none"
    /\ firstRun.config = config
SkippedOrUnchanged(i) ==
    /\ task[i].st = "fulfilled"
    /\ task[i].result.stats.formatted = 0
    /\ task[i].result.stats.skipped + task[i].result.stats.unchanged = task[i].result.stats.total

\* C8 as stated: the second of two runs in succession, dry-run disabled and no file
\* changed in between, has formatted = 0 and classifies every file skipped or
\* unchanged.
SecondRunSkipsEveryFile ==
    SecondRunOver => \A i \in Scanned : SkippedOrUnchanged(i)

\* C8 amended: the second of two runs in succession, dry-run disabled and nothing
\* changed in between, classifies skipped or unchanged, and never formatted, every
\* file that the first run classified formatted, unchanged or skipped; a file the
\* first run counted invalid is processed again.
SecondRunSkipsEveryProcessedFile ==
    SecondRunOver =>
        \A i \in Scanned :
            (firstRun.classes[task[i].file] # {} /\ "invalid" \notin firstRun.classes[task[i].file])
                => SkippedOrUnchanged(i)

SecondRunSkippedFormattedFile ==
    /\ SecondRunOver
    /\ \E i \in Scanned : /\ firstRun.classes[task[i].file] = {"formatted"}
                         /\ task[i].result.stats.skipped = 1
    /\ \E i \in Scanned : /\ firstRun.classes[task[i].file] = {"invalid"}
                         /\ task[i].result.stats.invalid = 1

\* C9: with dry-run enabled no project file is written and the readback
\* verification is never performed; every valid file that misses the cache is
\* counted as formatted.
DryRunNeverWrites ==
    options.dryRun =>
        /\ clock = 0
        /\ \A f \in DOMAIN disk : disk[f].mtime = 0
        /\ \A e \in ExecIds :
              /\ exec[e].pc \notin {"format", "write", "readback", "restat"}
              /\ ~Has(exec[e], "file:verify:start")
              /\ ~Has(exec[e], "file:verify:success")
              /\ Has(exec[e], "file:cache:miss") => exec[e].stats.formatted = 1
              /\ (Has(exec[e], "file:validated") \/ Has(exec[e], "file:validate:skip"))
                    => (Has(exec[e], "file:cache:hit") \/ Has(exec[e], "file:cache:miss"))

DryRunCountedUnformattedFile ==
    /\ options.dryRun
    /\ \E e \in ExecIds : /\ Done(e)
                         /\ exec[e].stats.formatted = 1
                         /\ disk[F(e)].content = "raw"

\* C10: with dry-run enabled, for every valid file that misses the cache the
\* events up through format:before and format:after are still emitted.
DryRunEmitsFormatEvents ==
    \A e \in ExecIds :
        (options.dryRun /\ Done(e) /\ Has(exec[e], "file:cache:miss")) =>
            (Has(exec[e], "format:before") /\ Has(exec[e], "format:after"))

\* C11: the listeners of format:before are called in registration order on one
\* shared object; each sees the rewrites of the earlier ones, and the content the
\* last one leaves is the text handed to the formatter.
ListenersRewriteWhatIsFormatted ==
    \A e \in ExecIds :
        LET x == exec[e]
            ls == On("format:before")
        IN Has(x, "format:before") =>
              /\ \A i \in 1..Len(x.seen) :
                    x.seen[i] = IF i = 1 THEN x.originalContent
                                ELSE Listen(ls[i - 1], Payload(x.file, x.seen[i - 1])).p.originalContent
              /\ Has(x, "format:after") => x.formatted = Format(x.payload.originalContent)

\* Some listener throws when file f is processed.
ThrowsFor(f) ==
    \E ev \in {"format:before", "file:processed", "file:error"} :
        Deliver(On(ev), Payload(f, "raw"), <<>>).thrown

\* C12: a handler's throw during an event of a file's processing aborts that
\* file's attempt only and is recorded as a per-file error: no call is left
\* neither running nor settled, every other file is processed normally, and the
\* summary of the pass records the file with its error.
HandlerThrowAbortsOnlyItsFile ==
    /\ \A t \in TaskIds : task[t].st # "stuck"
    /\ summary # NoSummary =>
          \A i \in Scanned :
              IF ThrowsFor(task[i].file)
                 THEN EndedInError(i)
                 ELSE task[i].st = "fulfilled" /\ task[i].result.errors = <<>>

ShutdownRejected(t) == task[t].st = "rejected" /\ task[t].error = "Shutdown initiated"

\* C13: once the shutdown flag is set no processing attempt starts: a queued file
\* that is started and the next retry of a file are rejected at once with the
\* shutdown-initiated error, the processor is not invoked, and the rejection is
\* final (counted as failed, never retried).
NoAttemptStartsAfterShutdown ==
    [][ shuttingDown =>
          /\ \A e \in ExecIds : exec[e].pc = "none" => exec'[e].pc = "none"
          /\ \A t \in TaskIds :
                (task[t].st \in {"pending", "backoff"} /\ task'[t].st # task[t].st) =>
                    \/ task'[t].st = "rejected" /\ task'[t].error = "Shutdown initiated"
                    \/ task[t].st = "pending" /\ task'[t].st = "waiting"
          /\ \A t \in TaskIds : task[t].st = "rejected" => task'[t] = task[t] ]_vars

QueuedAndRetryingRejectedOnShutdown ==
    /\ shuttingDown
    /\ \E t \in TaskIds : ShutdownRejected(t) /\ ~Began(<<t, 1>>)
    /\ \E t \in TaskIds : ShutdownRejected(t) /\ Began(<<t, 1>>) /\ ~Began(<<t, 2>>)

Running(e) == exec[e].pc \notin {"none", "done"}

\* C14: when session:stop has been emitted no per-file pipeline execution is
\* still running, so no project file is written after it.
NothingRunsAfterSessionStop ==
    emitted["session:stop"] > 0 => \A e \in ExecIds : ~Running(e)


\* What the processing of file f came to, read off the processFiles calls made
\* for f: the {stats, errors} one of them returned, or the error it threw.
OutcomeOf(f, d) ==
    \E e \in ExecIds :
        /\ exec[e].file = f
        /\ Done(e)
        /\ IF Deliver(On("file:processed"), Payload(f, Undefined), <<>>).thrown
              THEN d = [status |-> "rejected", reason |-> "Extension error", value |-> NoResult]
              ELSE d = [status |-> "fulfilled", reason |-> Undefined,
                        value |-> [stats |-> exec[e].stats, errors |-> exec[e].errors]]

\* C15: in the run summary the i-th per-file outcome is the outcome of the i-th
\* file submitted, whatever the order in which the files completed.
SummaryDetailsInSubmissionOrder ==
    summary # NoSummary =>
        /\ Len(summary.details) = Len(filesToProcess)
        /\ \A i \in Scanned : OutcomeOf(filesToProcess[i], summary.details[i])

SummaryOfFilesCompletedOutOfOrder ==
    /\ summary # NoSummary
    /\ task[2].rank < task[1].rank
    /\ summary.details[1] # summary.details[2]
    /\ \E i \in Scanned : summary.details[i].status = "rejected"

\* C16: the per-file pipeline executions started and not finished never exceed
\* the configured concurrency, also when attempts time out and are retried.
RunningExecutionsWithinConcurrency ==
    Cardinality({e \in ExecIds : Running(e)}) <= options.concurrency

\* C17: in a run with backup enabled and dry-run disabled the processing tasks
\* are created only after createBackup has settled: while the backup attempt is
\* under way no task exists, no pipeline execution has begun and no project file
\* has been written.
NothingProcessedBeforeBackupEnds ==
    (options.backup /\ ~options.dryRun /\ bk.st \in {"idle", "running"}) =>
        /\ \A t \in TaskIds : task[t].st = "none"
        /\ \A e \in ExecIds : ~Began(e)
        /\ \A f \in DOMAIN disk : disk[f].mtime = 0

FileWrittenAfterBackupEnded ==
    /\ options.backup /\ ~options.dryRun
    /\ bk.st = "ok"
    /\ \E e \in ExecIds : /\ Has(exec[e], "file:verify:success")
                         /\ disk[exec[e].file].mtime > 0
                         /\ bk.archives[1].bytes[exec[e].file] = "raw"

\* C18: when createBackup fails during a run, the run still processes every
\* scanned file and ends with run:complete, not run:error.
FailedBackupDoesNotStopRun ==
    (bk.st = "failed" /\ phase = "done") =>
        /\ emitted["run:complete"] = 1
        /\ emitted["run:error"] = 0
        /\ summary # NoSummary
        /\ summary.total = Len(filesToProcess)
        /\ \A i \in Scanned : Began(<<i, 1>>) /\ Done(<<i, 1>>) /\ task[i].st = "fulfilled"

RunCompletedAfterFailedBackup ==
    /\ bk.st = "failed"
    /\ emitted["backup:error"] = 1
    /\ emitted["run:complete"] = 1
    /\ \E f \in DOMAIN disk : disk[f].mtime > 0

IntactArchiveIsRestored ==
    (bk.restore.pc \in {"failed", "done"}
        /\ getStreamHash(bk.archives[bk.restore.name]) = bk.archives[bk.restore.name].manifest) =>
        /\ bk.restore.pc = "done"
        /\ Len(bk.archives) = bk.restore.count + 1
        /\ \A f \in DOMAIN bk.archives[bk.restore.name].bytes :
              disk[f].content = bk.archives[bk.restore.name].bytes[f]

ClassesOf(r, n) ==
    {c \in {"healthy", "corrupt", "orphaned_archives", "orphaned_manifests"} : n \in r[c]}

\* C22: verifyBackups puts every archive and manifest of the backup directory in
\* exactly one class: a paired archive is healthy iff its fresh digest equals the
\* recorded one, corrupt iff it differs or the manifest is unreadable; a manifest
\* without archive is an orphaned manifest, an archive without manifest an
\* orphaned archive.
VerifyClassifiesEveryBackup ==
    bk.report.made = "yes" =>
        \A n \in DOMAIN bk.report.dir :
            LET a == bk.report.dir[n]
                matches == a.mf = "ok" /\ getStreamHash(a) = a.manifest
            IN ClassesOf(bk.report, n) =
                  IF a.present /\ a.mf # "missing"
                     THEN (IF matches THEN {"healthy"} ELSE {"corrupt"})
                  ELSE IF a.present THEN {"orphaned_archives"}
                  ELSE IF a.mf # "missing" THEN {"orphaned_manifests"}
                  ELSE {}

UntouchedHealthyAndDamagedCorrupt ==
    /\ bk.report.made = "yes"
    /\ \E n \in bk.report.healthy :
          bk.report.dir[n] = [bk.report.dir[n] EXCEPT !.damaged = FALSE, !.mf = "ok", !.present = TRUE]
    /\ \E n \in bk.report.corrupt : bk.report.dir[n].damaged /\ bk.report.dir[n].mf = "ok"

\* The archives of directory dir, and the k most recently created of them.
ArchivesOf(dir) == {n \in DOMAIN dir : dir[n].present}
MostRecent(dir, k) ==
    {n \in ArchivesOf(dir) : Cardinality({m \in ArchivesOf(dir) : m > n}) < k}

\* C23: cleanBackups(keepCount) keeps exactly the keepCount most recently
\* created backups (by manifest creation time, by modification time for a
\* backup without manifest) and deletes every other archive with its manifest.
CleanKeepsMostRecent ==
    bk.clean.made =>
        /\ ArchivesOf(bk.archives) = MostRecent(bk.clean.dir, bk.clean.limit)
        /\ \A n \in ArchivesOf(bk.clean.dir) \ ArchivesOf(bk.archives) :
              bk.archives[n].mf = "missing"

\* Some rule of the list ignores pathname p on its own.
MatchedBy(rules, p) == \E i \in DOMAIN rules : ignores(<<rules[i]>>, p, FALSE)

\* C24: for a path matched by a configuration rule and by a rule of the ignore
\* file, analyzeIgnore reports the configuration rule and source: the first
\* configuration rule that matches; with no configuration match and no ignore
\* file the lookup ends with "not ignored", not with an error.
ConfigurationRuleReportedFirst ==
    sc.why # NoWhy =>
        LET p == sc.why.file IN
        /\ MatchedBy(sc.ignorePatterns, p) =>
              /\ sc.why.source = "razzaq.config.js"
              /\ \E i \in DOMAIN sc.ignorePatterns :
                    /\ sc.why.rule = sc.ignorePatterns[i]
                    /\ ignores(<<sc.ignorePatterns[i]>>, p, FALSE)
                    /\ \A j \in 1..(i - 1) : ~ignores(<<sc.ignorePatterns[j]>>, p, FALSE)
        /\ (~MatchedBy(sc.ignorePatterns, p) /\ ~sc.gitignore.present) => sc.why.rule = "null"

PathMatchedByBothReportedAsConfiguration ==
    /\ sc.why # NoWhy
    /\ sc.gitignore.present
    /\ MatchedBy(sc.ignorePatterns, sc.why.file)
    /\ MatchedBy(sc.gitignore.rules, sc.why.file)
    /\ sc.ignorePatterns[1] \notin {sc.gitignore.rules[i] : i \in DOMAIN sc.gitignore.rules}
    /\ sc.why.source = "razzaq.config.js"

\* The directories above pathname p.
Ancestors(p) == {SubSeq(p, 1, k) : k \in 1..(Len(p) - 1)}

\* C25: every path the scanner yields is a file with a target extension that is
\* not ignored and has no ignored directory above it, and a directory that the
\* rules ignore is never read.
ScannerYieldsTargetsAndPrunesIgnored ==
    /\ \A i \in DOMAIN sc.yielded :
          LET p == sc.yielded[i] IN
          /\ p \in ScanFiles
          /\ extnameOf(p[Len(p)]) \in targetExtensions
          /\ ~ignores(ignorer, p, FALSE)
          /\ \A d \in Ancestors(p) : ~ignores(ignorer, d, TRUE)
    /\ \A d \in sc.read \ {<<>>} : ~ignores(ignorer, d, TRUE)

\* The file is missing or is no JSON, or it parses to something whose `files` is
\* not an entries map.
WithoutEntriesMap(file) == file.kind # "json" \/ file.data.filesIs # "object"

\* C26: when the cache file is missing, unreadable, not parseable, or parses to
\* something without an entries map, the cache after the load is the fresh one:
\* an empty entries map, the current schema version and configuration fingerprint.
LoadWithoutEntriesMapYieldsFreshCache ==
    (phase = "ready" /\ WithoutEntriesMap(cacheFile)) => cache = FreshCache(config)

\* The same for every file but the one whose `files` is a number.
LoadWithoutFilesYieldsFreshCache ==
    (phase = "ready" /\ WithoutEntriesMap(cacheFile) /\ cacheFile.data.filesIs # "number") =>
        cache = FreshCache(config)

\* A run over a cache whose `files` is a number: the file was rewritten on disk and
\* is reported invalid with the TypeError of the cache update.
RewrittenFileReportedInvalid ==
    \E t \in TaskIds :
        /\ task[t].st = "fulfilled"
        /\ task[t].result.errors = <<"TypeError">>
        /\ disk[task[t].file].content = "fmt"
        /\ disk[task[t].file].mtime > 0

\* The saveCache calls between taking the lock and releasing it.
SavesInFlight == {e \in ExecIds : exec[e].pc \in {"saveWrite", "saveRename", "saveUnlink"}}

Logged(e, line) == \E i \in DOMAIN exec[e].log : exec[e].log[i] = line

\* C27: at most one cache save is in flight, the lock flag is set exactly while
\* one is (so it is released when the save ends, with or without success), and
\* a saveCache call made while the flag is set returns and leaves the temporary
\* file and the cache file as they are (the call of a process that is killed
\* does not return).
OneSaveInFlightAndLockReleased ==
    [][ /\ Cardinality(SavesInFlight') <= 1
        /\ cacheLock' <=> (SavesInFlight' # {})
        /\ \A e \in ExecIds :
              (exec[e].pc = "tail" /\ cacheLock /\ exec'[e] # exec[e] /\ phase' # "killed") =>
                  /\ exec'[e].pc = "done"
                  /\ tempFile' = tempFile
                  /\ cacheFile' = cacheFile
                  /\ cacheLock' ]_vars

\* A save was dropped while another one was in flight, that one failed and has
\* ended, and the lock is free.
SaveDroppedAndFailedSaveEnded ==
    \E d, e \in ExecIds :
        /\ Logged(d, "Cache save skipped, lock is active.") /\ exec[d].pc = "done"
        /\ Logged(e, "Failed to save cache:") /\ exec[e].pc = "done"
        /\ ~cacheLock

\* Every entry of the in-memory cache is in the cache file.
Persisted ==
    /\ cacheFile.kind = "json"
    /\ \A f \in DOMAIN cache.files :
          f \in DOMAIN cacheFile.data.files /\ cacheFile.data.files[f] = cache.files[f]

\* C28: once the run is complete (every processing task has settled) and every
\* save has ended, the cache file holds every entry of the in-memory cache.
CacheFileHoldsEveryEntryAfterRun ==
    (phase = "done" /\ Quiescent /\ ~cacheLock /\ DOMAIN cache.files # {}) => Persisted

\* The same for the runs in which no save was dropped.
CacheFileHoldsEveryEntryUnlessDropped ==
    (/\ phase = "done" /\ Quiescent /\ ~cacheLock /\ DOMAIN cache.files # {}
     /\ \A e \in ExecIds : ~Logged(e, "Cache save skipped, lock is active.")) => Persisted

\* C29: the cache file changes only by the rename of a completely written
\* temporary file over it, so a failed write, a failed rename and a process killed
\* during a save leave it as it was; and the processFiles call whose save failed
\* returns normally: the attempt that awaits it is fulfilled.
CacheFileReplacedOnlyByRename ==
    [][ /\ cacheFile' # cacheFile =>
              /\ tempFile.kind = "json"
              /\ cacheFile' = tempFile
              /\ \E e \in ExecIds : exec[e].pc = "saveRename" /\ exec'[e].pc = "done"
        /\ \A e \in ExecIds :
              (exec[e].pc = "saveUnlink" /\ exec'[e] # exec[e] /\ phase' # "killed") =>
                  /\ exec'[e].pc = "done"
                  /\ Awaiting(e) => task'[e[1]].st = "fulfilled" ]_vars

\* The process was killed while the temporary file was being written: the partial
\* temporary file is left behind and the cache file is the complete earlier one.
KilledSaveLeavesCacheFile ==
    /\ phase = "killed"
    /\ tempFile.kind = "writing"
    /\ cacheFile.kind = "json"
    /\ DOMAIN tempFile.data.files # DOMAIN cacheFile.data.files

\* The timer of the running attempt of task t fires in this step.
TimesOut(t) == task[t].st = "active" /\ task'[t].st # "active" /\ exec' = exec

AuditFailureLeavesOutcome ==
    /\ bk.st = "failed" => ~env.backupOk
    /\ bk.thrown # "EACCES"
    /\ bk.restore.error # "EACCES"
    /\ bk.clean.error # "EACCES"

\* The same for the sessions whose audit log takes every entry.
WrittenAuditLeavesOutcome == bk.auditOk => AuditFailureLeavesOutcome

\* The archive of the run was created, and createBackup failed.
ArchiveCreatedAndBackupFailed ==
    /\ bk.st = "failed"
    /\ env.backupOk
    /\ Len(bk.archives) = 1
    /\ bk.archives[1].present /\ bk.archives[1].mf = "ok"

\* Old backups were deleted, and cleanBackups ended with the audit error.
CleanedAndFailed ==
    /\ bk.clean.made
    /\ bk.clean.error = "EACCES"
    /\ \E n \in DOMAIN bk.archives : bk.clean.dir[n].present /\ ~bk.archives[n].present

\* The restore of an intact archive into an empty root ended with the audit error.
RestoreFailedOnAudit ==
    /\ bk.restore.pc = "failed"
    /\ bk.restore.error = "EACCES"
    /\ readdir = <<>>
    /\ Intact(bk.archives[bk.restore.name])

\* The processFiles call e rejected its file for its size.
TooLarge(e) == \E i \in DOMAIN exec[e].errors : exec[e].errors[i] = "File too large"

\* C32: a file rejected for exceeding the maximum size was never read: the
\* call that rejected it holds no content of the file.
OversizedFileNeverRead ==
    \A e \in ExecIds : TooLarge(e) => exec[e].originalContent = Undefined

\* validateFile itself reads no content of the file it rejects for its size:
\* the call holds no fingerprint of it.
OversizedFileNeverHashed ==
    \A e \in ExecIds : TooLarge(e) => exec[e].hash = Undefined

\* The per-file task of the processFiles call e is over.
TaskOver(e) == exec[e].pc \in {"tail", "throw", "saveWrite", "saveRename", "saveUnlink", "done"}

\* The positions of file:processed among the events of the call.
Processed(e) == {i \in DOMAIN exec[e].events : exec[e].events[i] = "file:processed"}

Queued == {t \in TaskIds : task[t].st = "none" /\ task'[t].st = "pending"}

\* The debounce timer fires in this step (a shutdown request clears it instead).
Fires == debounceTimer /\ ~debounceTimer' /\ shuttingDown' = shuttingDown

\* C34: a change notification that is accepted adds its path to the buffer and
\* leaves the debounce timer set, and none is accepted while the session is
\* shutting down; when the timer fires the buffer is emptied and one pass is
\* started with one limiter task for each buffered path and for no other; watch
\* tasks are created in no other step.
ChangesBatchedIntoOnePass ==
    [][ /\ (changeBuffer' # changeBuffer /\ ~Fires) =>
              /\ ~shuttingDown
              /\ changeBuffer \subseteq changeBuffer'
              /\ Cardinality(changeBuffer' \ changeBuffer) = 1
              /\ debounceTimer'
        /\ Fires =>
              /\ changeBuffer' = {}
              /\ Cardinality(Queued) = Cardinality(changeBuffer)
              /\ {task'[t].file : t \in Queued} = changeBuffer
              /\ emitted'["watch:run:start"] =
                    emitted["watch:run:start"] + (IF changeBuffer = {} THEN 0 ELSE 1)
        /\ (phase = "watching" /\ Queued # {}) => Fires ]_vars

\* Two paths changed within one window and one pass was started for both.
TwoPathsInOnePass ==
    /\ emitted["watch:run:start"] = 1
    /\ changeBuffer = {}
    /\ \E t, u \in TaskIds \ Scanned :
          /\ task[t].st # "none" /\ task[u].st # "none"
          /\ task[t].file # task[u].file

\* The backup phase of the run is over.
BackupPhaseOver == bk.st \in {"ok", "failed"} /\ phase \in {"processing", "done"}

\* C35: once the backup phase of a run is over exactly one of backup:complete
\* and backup:error was emitted: backup:complete for an archive that was
\* created, backup:error, and no backup:complete, for a backup that failed.
OneBackupEventPerAttempt ==
    BackupPhaseOver =>
        /\ emitted["backup:complete"] + emitted["backup:error"] = 1
        /\ bk.st = "ok" => emitted["backup:complete"] = 1
        /\ bk.st = "failed" => emitted["backup:error"] = 1

\* The same for the backups that succeed.
OneBackupEventPerCreatedArchive == bk.st = "ok" => OneBackupEventPerAttempt

\* A failed backup was announced by backup:error.
FailedBackupAnnounced == (BackupPhaseOver /\ bk.st = "failed") => emitted["backup:error"] = 1

\* The processFiles calls that are inside the per-file pipeline of path f.
InPipeline(f) ==
    {e \in ExecIds : /\ exec[e].file = f
                     /\ exec[e].pc \in {"stat", "read", "validate", "format", "write", "readback",
                                        "restat", "recover"}}

\* C36: at most one execution of the per-file pipeline is in progress for a
\* path, also after an attempt timed out and the file is retried.
OnePipelinePerPath == \A f \in Files : Cardinality(InPipeline(f)) <= 1

\* The same as long as no attempt for the path has timed out.
OnePipelinePerPathInTime ==
    \A f \in Files :
        (\A t \in TaskIds : task[t].file = f => task[t].attempt <= 1 /\ task[t].error # "Processing timed out")
            => Cardinality(InPipeline(f)) <= 1

\* C37 as stated: whenever a call of gracefulShutdown resolves, the limiter has
\* no active and no pending task and session:stop has been emitted, also for a
\* call made while an earlier call is still draining the limiter; and
\* session:shutdown:start and session:stop are each emitted at most once.
ShutdownResolvesDrainedAndStopped ==
    /\ \A r \in resolved : r.drained /\ r.stopped
    /\ emitted["session:shutdown:start"] <= 1
    /\ emitted["session:stop"] <= 1

\* The parts of C37 that the code keeps: each of the two events is emitted at
\* most once, and session:stop is emitted with the limiter drained.
ShutdownEventsAtMostOnce ==
    /\ emitted["session:shutdown:start"] <= 1
    /\ emitted["session:stop"] <= 1
StopEmittedWhenDrained ==
    [][emitted'["session:stop"] > emitted["session:stop"] =>
          activeCount' = 0 /\ pendingCount' = 0]_vars
SecondCallResolvedWhileDraining ==
    /\ polling
    /\ [drained |-> FALSE, stopped |-> FALSE] \in resolved

\* C38 as stated: once session:stop has been emitted the session has no active
\* watcher and no pending debounce timer, and no watch pass starts, whatever the
\* moment at which shutdown was requested, the initial full pass of watch mode
\* included.
Stopped == emitted["session:stop"] > 0
NothingWatchesAfterStop ==
    /\ [](Stopped => ~watcher /\ ~debounceTimer)
    /\ [][Stopped => emitted'["watch:run:start"] = emitted["watch:run:start"]]_vars

\* What the code keeps of C38: the step that sets the shutdown flag leaves no
\* watcher and no timer, and after session:stop no timer is pending and no watch
\* pass starts.
ShutdownClosesWatcherAndTimer ==
    [][~shuttingDown /\ shuttingDown' => ~watcher' /\ ~debounceTimer']_vars
NoTimerAndNoPassAfterStop ==
    /\ [](Stopped => ~debounceTimer)
    /\ [][Stopped => emitted'["watch:run:start"] = emitted["watch:run:start"]]_vars
WatcherCreatedAfterStop ==
    /\ Stopped
    /\ watcher
    /\ summary # NoSummary

\* C39 as stated: when processFiles returns, formatted + skipped + unchanged +
\* invalid = total and the errors list has exactly `invalid` entries; every file
\* increments exactly one counter, also when an event listener throws during the
\* processing of the file.
Returned(e) == exec[e].pc \notin {"none", "throw", "done"} /\ exec'[e].pc = "done"
Counted(x) == x.stats.formatted + x.stats.skipped + x.stats.unchanged + x.stats.invalid
CountersAddUpAtReturn ==
    [][\A e \in ExecIds :
          Returned(e) => /\ Counted(exec'[e]) = exec'[e].stats.total
                         /\ Len(exec'[e].errors) = exec'[e].stats.invalid]_vars

\* What the code keeps of C39: the errors list has `invalid` entries, and the
\* counters add up to the total for every file no listener threw on before the
\* finally block.
ErrorsListMatchesInvalid ==
    [][\A e \in ExecIds : Returned(e) => Len(exec'[e].errors) = exec'[e].stats.invalid]_vars
CountersAddUpWithoutThrow ==
    [][\A e \in ExecIds :
          Returned(e) /\ ~Recorded(exec'[e], "Extension error")
             => Counted(exec'[e]) = exec'[e].stats.total]_vars
CountedTwice ==
    \E e \in ExecIds : /\ exec[e].pc = "done"
                        /\ exec[e].stats.total = 1
                        /\ exec[e].stats.skipped = 1
                        /\ exec[e].stats.invalid = 1

\* C40 as stated: once gracefulShutdown has been called session:stop is
\* eventually emitted; under fair scheduling of timers and I/O completions every
\* admitted task settles, the limiter drains and the polling loop ends.
ShutdownEndsInStop == shuttingDown ~> Stopped

\* What the code keeps of C40: the shutdown of a session whose listeners do not
\* throw ends in session:stop, and so does every shutdown during which no
\* attempt loop was left without a settlement.
QuietShutdownEndsInStop == (shuttingDown /\ env.listeners = <<>>) ~> Stopped
ShutdownEndsInStopOrStuck == shuttingDown ~> (Stopped \/ \E t \in TaskIds : task[t].st = "stuck")
PollingOnStuckTask ==
    /\ polling
    /\ \E t \in TaskIds : task[t].st = "stuck"


====
